---- MODULE Spec2Model ----
(***************************************************************************)
(* A model of proxy-twister: the per-connection handler of src/server.rs,  *)
(* the protocol helpers of src/protocols, the pattern matcher of           *)
(* src/utils and the configuration watcher of src/config/watcher.rs.       *)
(*                                                                         *)
(* Strings whose characters the code inspects (request targets, host       *)
(* names, patterns) are sequences of one-character strings.  Strings the   *)
(* code only compares as a whole (methods, header names, profile names)    *)
(* are TLA+ strings.                                                       *)
(***************************************************************************)
EXTENDS Integers, Sequences, FiniteSets, TLC

VARIABLES
    call,               \* pure-function harness: the function applied and its inputs
    ret,                \* pure-function harness: the value returned (NoRet before the call)
    px,                 \* one exchange with an upstream, as the function driving it sees it
    config,             \* Arc<RwLock<Config>>: the policy in the shared cell
    readers,            \* RwLock: the handlers holding a read guard
    wwait,              \* RwLock: TRUE while the watcher's config.write() is queued
    file,               \* the config file on disk: a policy, or Malformed
    rx,                 \* the watcher's event channel (and the notify backlog behind it)
    wpc,                \* the watcher task's position
    new_config,         \* watcher local: the policy loaded from disk, not yet applied
    wlog,               \* the watcher's last log line
    connections_token,  \* Arc<Mutex<CancellationToken>>: the installed token (an id)
    cancelled,          \* the set of token ids that have been cancelled
    shutdown_token,     \* TRUE once the shutdown token is cancelled
    lpc,                \* the listener task's position
    conn,               \* the spawned handler tasks, by connection number
    nevents,            \* the filesystem events raised so far
    hist                \* history: the policies the cell has held, oldest first

vars == <<call, ret, px, config, readers, wwait, file, rx, wpc, new_config, wlog,
          connections_token, cancelled, shutdown_token, lpc, conn, nevents, hist>>

harness == <<call, ret, px>>
cellvars == <<config, readers, wwait, hist>>
watchvars == <<file, rx, wpc, new_config, wlog, nevents>>
tokvars == <<connections_token, cancelled>>
listvars == <<shutdown_token, lpc>>

sysvars == <<config, readers, wwait, file, rx, wpc, new_config, wlog,
             connections_token, cancelled, shutdown_token, lpc, conn, nevents, hist>>

-----------------------------------------------------------------------------
(* Bounds of the model *)

\* the longest rule list of a policy drawn for select_profile
MaxRules == 2
\* the connections the listener accepts
MaxConns == 1
\* the filesystem events the environment raises
MaxEvents == 1
\* the chunks of data each peer of a tunnel sends
MaxData == 1
\* the longest pattern and host drawn freely for matches_pattern
MaxPatLen == 3
\* the longest domain d of a pattern *.d drawn for matches_pattern
MaxDomainLen == 5
\* the bytes each peer sends after the heads, in the byte-level model of a tunnel
MaxBytes == 2

-----------------------------------------------------------------------------
(* Strings as sequences of characters *)

Some(v) == [some |-> TRUE, v |-> v]
None == [some |-> FALSE]

StartsWith(s, p) == Len(s) >= Len(p) /\ SubSeq(s, 1, Len(p)) = p

\* str::strip_prefix, used where the caller has tested StartsWith
StripPrefix(s, p) == SubSeq(s, Len(p) + 1, Len(s))

FirstIndex(s, c) == CHOOSE i \in 1..Len(s) : s[i] = c /\ \A j \in 1..(i - 1) : s[j] # c

Contains(s, c) == \E i \in 1..Len(s) : s[i] = c

\* str::split(c): the pieces between the occurrences of c, empty pieces kept
RECURSIVE Split(_, _)
Split(s, c) ==
    IF Contains(s, c)
    THEN LET i == FirstIndex(s, c)
         IN  <<SubSeq(s, 1, i - 1)>> \o Split(SubSeq(s, i + 1, Len(s)), c)
    ELSE <<s>>

Digits == <<"0", "1", "2", "3", "4", "5", "6", "7", "8", "9">>

IsDigit(c) == \E i \in 1..10 : Digits[i] = c

DigitVal(c) == (CHOOSE i \in 1..10 : Digits[i] = c) - 1

RECURSIVE DecVal(_)
DecVal(s) == IF s = <<>> THEN 0
             ELSE DecVal(SubSeq(s, 1, Len(s) - 1)) * 10 + DigitVal(s[Len(s)])

U16Max == 65535

\* str::parse::<u16>(): an optional '+', then one or more decimal digits, value
\* at most 65535; anything else is an error
ParseU16(s) ==
    LET d == IF s # <<>> /\ s[1] = "+" THEN Tail(s) ELSE s
    IN  IF d # <<>> /\ (\A i \in 1..Len(d) : IsDigit(d[i])) /\ DecVal(d) <= U16Max
        THEN [ok |-> TRUE, val |-> DecVal(d)]
        ELSE [ok |-> FALSE, val |-> 0]

-----------------------------------------------------------------------------
(* utils::matches_pattern *)

RegexMeta == {"\\", ".", "+", "*", "?", "(", ")", "|", "[", "]", "{", "}",
              "^", "$", "#", "&", "-", "~"}

\* regex::escape: a backslash before every metacharacter
RECURSIVE RegexEscape(_)
RegexEscape(s) ==
    IF s = <<>> THEN <<>>
    ELSE (IF s[1] \in RegexMeta THEN <<"\\", s[1]>> ELSE <<s[1]>>) \o RegexEscape(Tail(s))

\* str::replace("\\*", ".*"): leftmost non-overlapping occurrences
RECURSIVE ReplaceEscapedStar(_)
ReplaceEscapedStar(s) ==
    IF s = <<>> THEN <<>>
    ELSE IF StartsWith(s, <<"\\", "*">>)
         THEN <<".", "*">> \o ReplaceEscapedStar(SubSeq(s, 3, Len(s)))
         ELSE <<s[1]>> \o ReplaceEscapedStar(Tail(s))

AnyRun == [k |-> "any"]
Lit(c) == [k |-> "lit", c |-> c]

\* the regex parser on the strings wildcard_to_regex builds: "\c" is the
\* literal c, ".*" is any run of characters other than newline, every other
\* character is itself
RECURSIVE RegexParse(_)
RegexParse(s) ==
    IF s = <<>> THEN <<>>
    ELSE IF s[1] = "\\" /\ Len(s) >= 2
         THEN <<Lit(s[2])>> \o RegexParse(SubSeq(s, 3, Len(s)))
         ELSE IF StartsWith(s, <<".", "*">>)
              THEN <<AnyRun>> \o RegexParse(SubSeq(s, 3, Len(s)))
              ELSE <<Lit(s[1])>> \o RegexParse(Tail(s))

\* a wildcard_to_regex without the strip_prefix branch: "*.domain" is treated
\* as any other pattern
wildcard_to_regex_one_branch(pattern) ==
    [optprefix |-> FALSE, body |-> RegexParse(ReplaceEscapedStar(RegexEscape(pattern)))]

\* wildcard_to_regex: "^(.*\.)?<escaped domain>$" for "*.domain", else
\* "^<escaped pattern with \* replaced by .*>$"
wildcard_to_regex(pattern) ==
    IF StartsWith(pattern, <<"*", ".">>)
    THEN [optprefix |-> TRUE,
          body |-> RegexParse(RegexEscape(StripPrefix(pattern, <<"*", ".">>)))]
    ELSE [optprefix |-> FALSE,
          body |-> RegexParse(ReplaceEscapedStar(RegexEscape(pattern)))]

\* an anchored match of the token list t against the whole of h
RECURSIVE TokensMatch(_, _)
TokensMatch(t, h) ==
    IF t = <<>> THEN h = <<>>
    ELSE IF t[1].k = "any"
         THEN \E n \in 0..Len(h) :
                 /\ \A i \in 1..n : h[i] # "\n"
                 /\ TokensMatch(Tail(t), SubSeq(h, n + 1, Len(h)))
         ELSE h # <<>> /\ h[1] = t[1].c /\ TokensMatch(Tail(t), Tail(h))

\* Regex::is_match on the regex of wildcard_to_regex
RegexIsMatch(re, h) ==
    \/ TokensMatch(re.body, h)
    \/ re.optprefix /\ TokensMatch(<<AnyRun, Lit(".")>> \o re.body, h)

matches_pattern(host, pattern) == RegexIsMatch(wildcard_to_regex(pattern), host)

-----------------------------------------------------------------------------
(* server::select_profile *)

\* the for loop over config.switch.rules from rule i on, with its break
RECURSIVE SelectFrom(_, _, _, _)
SelectFrom(rules, i, target_host, selected) ==
    IF i > Len(rules) THEN selected
    ELSE IF matches_pattern(target_host, rules[i].pattern)
         THEN rules[i].profile
         ELSE SelectFrom(rules, i + 1, target_host, selected)

\* a loop that forgets the break: the last matching rule wins
RECURSIVE SelectFromNoBreak(_, _, _, _)
SelectFromNoBreak(rules, i, target_host, selected) ==
    IF i > Len(rules) THEN selected
    ELSE IF matches_pattern(target_host, rules[i].pattern)
         THEN SelectFromNoBreak(rules, i + 1, target_host, rules[i].profile)
         ELSE SelectFromNoBreak(rules, i + 1, target_host, selected)

select_profile_last_match(cfg, target_host) ==
    SelectFromNoBreak(cfg.switch.rules, 1, target_host, cfg.switch.default)

select_profile(cfg, target_host) ==
    SelectFrom(cfg.switch.rules, 1, target_host, cfg.switch.default)

-----------------------------------------------------------------------------
(* protocols::http: the request head and the CONNECT target *)

HTTP_SERVER_ERROR == "HTTP/1.1 500 Internal Server Error"
HTTP_BAD_REQUEST == "HTTP/1.1 400 Bad Request"
HTTP_METHOD_NOT_ALLOWED == "HTTP/1.1 405 Method Not Allowed"
HTTP_CONNECTION_ESTABLISHED == "HTTP/1.1 200 Connection Established"

Err(kind) == [ok |-> FALSE, err |-> kind]

\* parse_request on what the client sends.  sent.kind is "silent" for a client
\* that sends nothing within the 30 s bound, "reset" for a read error, "head"
\* for a request head; sent.parts are the whitespace-separated tokens of the
\* first line and sent.headers the header lines, keyed by the lowercased name.
parse_request(sent) ==
    IF sent.kind = "silent" THEN Err("TimedOut")
    ELSE IF sent.kind = "reset" THEN Err("Io")
    ELSE IF Len(sent.parts) # 3 THEN Err("InvalidData")
    ELSE [ok |-> TRUE,
          request |-> [method |-> sent.parts[1], target |-> sent.parts[2],
                       headers |-> sent.headers, body |-> sent.body]]

\* handle_connect: the (host, port) of a CONNECT target, with what it writes
\* to the client before it returns
handle_connect(request) ==
    IF request.method # "CONNECT"
    THEN [ok |-> FALSE, err |-> "InvalidData", wrote |-> <<HTTP_METHOD_NOT_ALLOWED>>]
    ELSE LET target_parts == Split(request.target, ":")
         IN  IF Len(target_parts) # 2
             THEN [ok |-> FALSE, err |-> "InvalidData", wrote |-> <<HTTP_BAD_REQUEST>>]
             ELSE LET port == ParseU16(target_parts[2])
                  IN  IF port.ok
                      THEN [ok |-> TRUE, host |-> target_parts[1], port |-> port.val,
                            wrote |-> <<>>]
                      ELSE [ok |-> FALSE, err |-> "InvalidData", wrote |-> <<>>]

HttpScheme == <<"h", "t", "t", "p", ":", "/", "/">>
HttpsScheme == <<"h", "t", "t", "p", "s", ":", "/", "/">>

DefaultHttpPort == 80

\* the host string of a non-CONNECT request: the host header, else the
\* authority of an "http://" target, else None
HostString(request) ==
    IF "host" \in DOMAIN request.headers THEN Some(request.headers["host"])
    ELSE IF StartsWith(request.target, HttpScheme)
         THEN Some(Split(StripPrefix(request.target, HttpScheme), "/")[1])
         ELSE None

\* server::extract_host_and_port
extract_host_and_port(request) ==
    IF request.method = "CONNECT" THEN handle_connect(request)
    ELSE LET host == HostString(request)
         IN  IF host = None
             THEN [ok |-> FALSE, err |-> "InvalidData", wrote |-> <<>>]
             ELSE LET parts == Split(host.v, ":")
                      parsed == IF Len(parts) > 1 THEN ParseU16(parts[2])
                                ELSE [ok |-> FALSE, val |-> 0]
                  IN  [ok |-> TRUE, host |-> parts[1],
                       port |-> IF parsed.ok THEN parsed.val ELSE DefaultHttpPort,
                       wrote |-> <<>>]

-----------------------------------------------------------------------------
(* config: policies *)

Direct == [scheme |-> "direct"]
Socks5(host, port) == [scheme |-> "socks5", host |-> host, port |-> port]
Http(host, port) == [scheme |-> "http", host |-> host, port |-> port]

Rule(pattern, profile) == [pattern |-> pattern, profile |-> profile]

Config(default, rules, profiles) ==
    [switch |-> [default |-> default, rules |-> rules], profiles |-> profiles]

\* what Config::load cannot read or parse
Malformed == [malformed |-> TRUE]

UpstreamHost == <<"u">>

SysProfiles ==
    [n \in {"direct", "A", "S"} |->
        CASE n = "direct" -> Direct
          [] n = "A" -> Http(UpstreamHost, 3128)
          [] n = "S" -> Socks5(UpstreamHost, 1080)]

\* the policy at startup: everything direct
PolicyDirect == Config("direct", <<>>, SysProfiles)
\* everything through the HTTP upstream A
PolicyA == Config("A", <<>>, SysProfiles)
\* *.b through the SOCKS5 upstream S; the default names a profile that is absent
PolicyRules == Config("missing", <<Rule(<<"*", ".", "b">>, "S")>>, SysProfiles)

FileContents == {PolicyA, PolicyRules, Malformed}

-----------------------------------------------------------------------------
(* The pure-function harness: Init draws the inputs, one action applies the   *)
(* function                                                                   *)

NoRet == [done |-> FALSE]
NoExchange == [proto |-> "none"]
Ret(v) == [done |-> TRUE, val |-> v]
NoCall == [fn |-> "none"]

\* the system at rest, for the specifications of pure functions
SysIdle ==
    /\ config = PolicyDirect
    /\ readers = {}
    /\ wwait = FALSE
    /\ file = PolicyDirect
    /\ rx = <<>>
    /\ wpc = "stopped"
    /\ new_config = None
    /\ wlog = "none"
    /\ connections_token = 0
    /\ cancelled = {}
    /\ shutdown_token = FALSE
    /\ lpc = "stopped"
    /\ conn = <<>>
    /\ nevents = 0
    /\ hist = <<PolicyDirect>>

SelPatterns == {<<"*", ".", "b">>, <<"*">>, <<"a", ".", "b">>, <<"a", "*">>, <<"b">>}
SelNames == {"direct", "A", "S"}
SelHosts == {<<"a", ".", "b">>, <<"b">>, <<"c">>, <<"a", "b">>, <<>>, <<"x", ".", "b">>}
SelRules == {Rule(p, n) : p \in SelPatterns, n \in SelNames}
SelRuleLists == UNION {[1..n -> SelRules] : n \in 0..MaxRules}
SelPolicies == {Config(d, r, SysProfiles) : d \in SelNames, r \in SelRuleLists}

InitSelect ==
    /\ call \in {[fn |-> "select_profile", config |-> c, target_host |-> h] :
                    c \in SelPolicies, h \in SelHosts}
    /\ ret = NoRet
    /\ px = NoExchange
    /\ SysIdle

ApplySelect ==
    /\ call.fn = "select_profile"
    /\ ret = NoRet
    /\ ret' = Ret(select_profile(call.config, call.target_host))
    /\ UNCHANGED <<call, px, sysvars>>

NextSelect == ApplySelect

SpecSelect == InitSelect /\ [][NextSelect]_vars

\* the indices of the rules of the call's policy whose pattern matches its host
MatchingRules ==
    {i \in 1..Len(call.config.switch.rules) :
        matches_pattern(call.target_host, call.config.switch.rules[i].pattern)}

Least(S) == CHOOSE i \in S : \A j \in S : i <= j

\* C1: select_profile returns the profile of the first rule, in list order,
\* whose pattern matches the host, and switch.default when no rule matches; so
\* the result is always a rule's profile name or the default.
C1_SelectFirstMatch ==
    (call.fn = "select_profile" /\ ret.done) =>
        /\ IF MatchingRules = {}
           THEN ret.val = call.config.switch.default
           ELSE ret.val = call.config.switch.rules[Least(MatchingRules)].profile
        /\ ret.val \in {call.config.switch.default}
                        \cup {call.config.switch.rules[i].profile :
                                 i \in 1..Len(call.config.switch.rules)}

\* two rules match, with different profiles, both other than the default
C1_Witness ==
    /\ call.fn = "select_profile" /\ ret.done
    /\ Cardinality(MatchingRules) >= 2
    /\ call.config.switch.rules[1].profile # call.config.switch.rules[2].profile
    /\ call.config.switch.default \notin
          {call.config.switch.rules[1].profile, call.config.switch.rules[2].profile}
    /\ ret.val = call.config.switch.rules[1].profile

-----------------------------------------------------------------------------
(* utils::matches_pattern applied to drawn hosts and patterns *)

SeqsUpTo(S, n) == UNION {[1..k -> S] : k \in 0..n}

PatChars == {"a", ".", "*"}
DomainChars == {"o", "t", "h", "e", "r"}
DotOther == <<".", "o", "t", "h", "e", "r">>
StarDot == <<"*", ".">>

MatchCall(host, pattern) == [fn |-> "matches_pattern", host |-> host, pattern |-> pattern]

\* every short host against every short pattern, and for every domain d the
\* hosts d, "x." + d and d + ".other" against "*." + d
MatchCalls(patlen, domlen) ==
    {MatchCall(h, p) : h \in SeqsUpTo(PatChars, patlen), p \in SeqsUpTo(PatChars, patlen)}
    \cup UNION {{MatchCall(h, StarDot \o d) : h \in {d, <<"x", ".">> \o d, d \o DotOther}} :
                   d \in SeqsUpTo(DomainChars, domlen) \cup SeqsUpTo(PatChars, patlen)}

InitMatch ==
    /\ call \in MatchCalls(MaxPatLen, MaxDomainLen)
    /\ ret = NoRet
    /\ px = NoExchange
    /\ SysIdle

ApplyMatch ==
    /\ call.fn = "matches_pattern"
    /\ ret = NoRet
    /\ ret' = Ret(matches_pattern(call.host, call.pattern))
    /\ UNCHANGED <<call, px, sysvars>>

NextMatch == ApplyMatch

SpecMatch == InitMatch /\ [][NextMatch]_vars

MatchDone == call.fn = "matches_pattern" /\ ret.done
EndsWith(s, t) == Len(s) >= Len(t) /\ SubSeq(s, Len(s) - Len(t) + 1, Len(s)) = t
\* the d of a call whose pattern is "*." + d
CallDomain == StripPrefix(call.pattern, StarDot)

\* C11: for every pattern *.d, d and "x." + d match it and d + ".other" does
\* not.
C11_SuffixPattern ==
    (MatchDone /\ StartsWith(call.pattern, StarDot)) =>
        /\ call.host = CallDomain => ret.val
        /\ call.host = <<"x", ".">> \o CallDomain => ret.val
        /\ call.host = CallDomain \o DotOther => ~ret.val

\* C11 as amended: for every pattern *.d, d and "x." + d match it, and
\* d + ".other" matches it exactly when d + ".other" itself ends with "." + d.
C11_SuffixPatternAmended ==
    (MatchDone /\ StartsWith(call.pattern, StarDot)) =>
        /\ call.host = CallDomain => ret.val
        /\ call.host = <<"x", ".">> \o CallDomain => ret.val
        /\ call.host = CallDomain \o DotOther =>
              (ret.val <=> EndsWith(call.host, <<".">> \o CallDomain))

\* "other.other" has matched "*.other"
C11_Witness ==
    /\ MatchDone /\ ret.val
    /\ call.pattern = <<"*", ".", "o", "t", "h", "e", "r">>
    /\ call.host = <<"o", "t", "h", "e", "r">> \o DotOther

\* the host is the pattern with every '*' replaced by zero or more characters
RECURSIVE Glob(_, _)
Glob(p, h) ==
    IF p = <<>> THEN h = <<>>
    ELSE IF p[1] = "*"
         THEN \E n \in 0..Len(h) : Glob(Tail(p), SubSeq(h, n + 1, Len(h)))
         ELSE h # <<>> /\ h[1] = p[1] /\ Glob(Tail(p), Tail(h))

\* C12: matches_pattern holds exactly when the whole host can be produced from
\* the pattern by replacing every '*' with zero or more characters, a leading
\* "*." also matching nothing; every other character matches only itself.
C12_MatchesIsGlob ==
    MatchDone =>
        (ret.val <=>
            \/ Glob(call.pattern, call.host)
            \/ StartsWith(call.pattern, StarDot) /\ Glob(CallDomain, call.host))

-----------------------------------------------------------------------------
(* The system: what clients send *)

HostAB == <<"a", ".", "b">>
HostC == <<"c">>

NoHeaders == <<>>
HostHeader(v) == [n \in {"host"} |-> v]

ReqHead(parts, headers) == [kind |-> "head", parts |-> parts, headers |-> headers, body |-> <<>>]

\* CONNECT a.b:443
ReqConnectAB == ReqHead(<<"CONNECT", HostAB \o <<":", "4", "4", "3">>, "HTTP/1.1">>, NoHeaders)
\* CONNECT c:80
ReqConnectC == ReqHead(<<"CONNECT", HostC \o <<":", "8", "0">>, "HTTP/1.1">>, NoHeaders)
\* GET http://a.b/p with Host: a.b
ReqGetAB == ReqHead(<<"GET", HttpScheme \o HostAB \o <<"/", "p">>, "HTTP/1.1">>, HostHeader(HostAB))
\* CONNECT a.b:x
ReqConnectBadPort == ReqHead(<<"CONNECT", HostAB \o <<":", "x">>, "HTTP/1.1">>, NoHeaders)
\* CONNECT a.b
ReqConnectNoPort == ReqHead(<<"CONNECT", HostAB, "HTTP/1.1">>, NoHeaders)
\* a first line of one token
ReqBadLine == ReqHead(<<"GET">>, NoHeaders)
\* GET /p with no Host header
ReqGetNoHost == ReqHead(<<"GET", <<"/", "p">>, "HTTP/1.1">>, NoHeaders)
\* GET https://a.b/ with Host: a.b
ReqGetHttps == ReqHead(<<"GET", HttpsScheme \o HostAB \o <<"/">>, "HTTP/1.1">>, HostHeader(HostAB))
\* CONNECT a.B:443
ReqConnectUpper == ReqHead(<<"CONNECT", <<"a", ".", "B", ":", "4", "4", "3">>, "HTTP/1.1">>, NoHeaders)
\* a client that connects and sends nothing
ReqSilent == [kind |-> "silent"]

\* what the clients of the single-connection specification send
ConnRequests == {ReqConnectAB, ReqConnectC, ReqGetAB, ReqConnectBadPort, ReqConnectNoPort,
                 ReqBadLine, ReqGetNoHost, ReqGetHttps, ReqConnectUpper, ReqSilent}

\* what the clients of the system specification send
SysRequests == {ReqConnectAB, ReqConnectC}

-----------------------------------------------------------------------------
(* The system: state after construction *)

NoRequest == [method |-> "none"]
NoProfile == [scheme |-> "none"]
NoToken == 0 - 1

\* a handler task as tokio::spawn creates it, for a client that will send `sent`
NewConn(sent) ==
    [pc |-> "spawned", sent |-> sent, token |-> NoToken, request |-> NoRequest,
     target_host |-> <<>>, port |-> 0, profile_name |-> "", proxy_config |-> NoProfile,
     cout |-> <<>>, uout |-> <<>>, uread |-> <<>>, upstream |-> "none",
     c_eof |-> FALSE, u_eof |-> FALSE, result |-> "running",
     acc_ver |-> Len(hist), acc_log |-> wlog]

Init ==
    /\ call = NoCall
    /\ ret = NoRet
    /\ px = NoExchange
    /\ config = PolicyDirect
    /\ readers = {}
    /\ wwait = FALSE
    /\ file = PolicyDirect
    /\ rx = <<>>
    /\ wpc = "select"
    /\ new_config = None
    /\ wlog = "none"
    /\ connections_token = 0
    /\ cancelled = {}
    /\ shutdown_token = FALSE
    /\ lpc = "listening"
    /\ conn = <<>>
    /\ nevents = 0
    /\ hist = <<PolicyDirect>>

Conns == 1..Len(conn)

Set(h, fields) == conn' = [conn EXCEPT ![h] = fields @@ conn[h]]

Finish(h, result, wrote) ==
    Set(h, [pc |-> "done", result |-> result, cout |-> conn[h].cout \o wrote])

-----------------------------------------------------------------------------
(* server::run_listener *)

\* listener.accept() returns a client socket and the handler task is spawned
Accept ==
    /\ lpc = "listening"
    /\ Len(conn) < MaxConns
    /\ \E sent \in SysRequests : conn' = Append(conn, NewConn(sent))
    /\ UNCHANGED <<harness, cellvars, watchvars, tokvars, listvars>>

\* a listener that logs the shutdown signal and goes on listening
ListenerShutdownNoBreak ==
    /\ lpc = "listening"
    /\ shutdown_token
    /\ UNCHANGED vars

\* the select! arm on shutdown_token.cancelled()
ListenerShutdown ==
    /\ lpc = "listening"
    /\ shutdown_token
    /\ lpc' = "stopped"
    /\ UNCHANGED <<harness, cellvars, watchvars, tokvars, shutdown_token, conn>>

\* the shutdown token is cancelled (the process is asked to stop)
Shutdown ==
    /\ ~shutdown_token
    /\ shutdown_token' = TRUE
    /\ UNCHANGED <<harness, cellvars, watchvars, tokvars, lpc, conn>>

-----------------------------------------------------------------------------
(* server::handle_client, one action per suspension point *)

\* the spawned task clones the installed token out of the mutex
TaskStart(h) ==
    /\ conn[h].pc = "spawned"
    /\ Set(h, [pc |-> "check", token |-> connections_token])
    /\ UNCHANGED <<harness, cellvars, watchvars, tokvars, listvars>>

\* "Check for cancellation before starting"
CheckCancelled(h) ==
    /\ conn[h].pc = "check"
    /\ IF conn[h].token \in cancelled
       THEN Finish(h, "ok", <<>>)
       ELSE Set(h, [pc |-> "parse"])
    /\ UNCHANGED <<harness, cellvars, watchvars, tokvars, listvars>>

\* http::parse_request(&mut client).await?
ParseRequest(h) ==
    /\ conn[h].pc = "parse"
    /\ LET r == parse_request(conn[h].sent)
       IN  IF r.ok
           THEN Set(h, [pc |-> "extract", request |-> r.request])
           ELSE Finish(h, "err", <<>>)
    /\ UNCHANGED <<harness, cellvars, watchvars, tokvars, listvars>>

\* extract_host_and_port(&mut client, &request).await?
ExtractTarget(h) ==
    /\ conn[h].pc = "extract"
    /\ LET r == extract_host_and_port(conn[h].request)
       IN  IF r.ok
           THEN Set(h, [pc |-> "read_lock", target_host |-> r.host, port |-> r.port,
                        cout |-> conn[h].cout \o r.wrote])
           ELSE Finish(h, "err", r.wrote)
    /\ UNCHANGED <<harness, cellvars, watchvars, tokvars, listvars>>

\* config.read().await: granted unless a writer is queued ahead
ReadLock(h) ==
    /\ conn[h].pc = "read_lock"
    /\ ~wwait
    /\ readers' = readers \cup {h}
    /\ Set(h, [pc |-> "locked"])
    /\ UNCHANGED <<harness, config, wwait, hist, watchvars, tokvars, listvars>>

\* a handler that reads the policy the process started with
ConfigReadStartup == hist[1]

\* the policy a handler's lookup reads: the one in the shared cell
ConfigRead == config

\* select_profile and profiles.get under the read guard; the guard is dropped
\* with the block when the profile is found, and is still held on the way to
\* the 500 of the not-found arm
Lookup(h) ==
    /\ conn[h].pc = "locked"
    /\ LET profile_name == select_profile(ConfigRead, conn[h].target_host)
       IN  IF profile_name \in DOMAIN ConfigRead.profiles
           THEN /\ Set(h, [pc |-> "dispatch", profile_name |-> profile_name,
                           proxy_config |-> ConfigRead.profiles[profile_name]])
                /\ readers' = readers \ {h}
           ELSE /\ Set(h, [pc |-> "not_found", profile_name |-> profile_name])
                /\ UNCHANGED readers
    /\ UNCHANGED <<harness, config, wwait, hist, watchvars, tokvars, listvars>>

\* a not-found arm that returns without answering the client
NotFoundSilent(h) ==
    /\ conn[h].pc = "not_found"
    /\ Finish(h, "ok", <<>>)
    /\ readers' = readers \ {h}
    /\ UNCHANGED <<harness, config, wwait, hist, watchvars, tokvars, listvars>>

\* "Profile {} not found in configuration": write 500, return Ok(())
NotFoundWrite(h) ==
    /\ conn[h].pc = "not_found"
    /\ Finish(h, "ok", <<HTTP_SERVER_ERROR>>)
    /\ readers' = readers \ {h}
    /\ UNCHANGED <<harness, config, wwait, hist, watchvars, tokvars, listvars>>

-----------------------------------------------------------------------------
(* server::handle_direct_connection and server::handle_proxy_connection *)

IsConnect(c) == c.request.method = "CONNECT"

\* how opening the upstream can end, by strategy: "open", "unreachable" (the
\* TCP connect fails), "rejected" (the upstream proxy refuses the handshake),
\* "write_failed" (the request cannot be written to the opened stream)
UpstreamOutcomes(c) ==
    CASE c.proxy_config.scheme = "direct" ->
            {"open", "unreachable"} \cup (IF IsConnect(c) THEN {} ELSE {"write_failed"})
      [] c.proxy_config.scheme = "socks5" ->
            {"open", "unreachable", "rejected"}
                \cup (IF IsConnect(c) THEN {} ELSE {"write_failed"})
      [] c.proxy_config.scheme = "http" ->
            {"open", "unreachable"} \cup (IF IsConnect(c) THEN {"rejected"} ELSE {})

\* what the handler has written to, and consumed from, the upstream when the
\* upstream is open and the byte-pump is about to start
UpstreamWritten(c) ==
    CASE c.proxy_config.scheme = "direct" -> IF IsConnect(c) THEN <<>> ELSE <<"request">>
      [] c.proxy_config.scheme = "socks5" ->
            <<"socks5 handshake">> \o (IF IsConnect(c) THEN <<>> ELSE <<"request">>)
      [] c.proxy_config.scheme = "http" -> IF IsConnect(c) THEN <<"CONNECT">> ELSE <<"request">>

UpstreamConsumed(c) ==
    CASE c.proxy_config.scheme = "direct" -> <<>>
      [] c.proxy_config.scheme = "socks5" -> <<"socks5 reply">>
      [] c.proxy_config.scheme = "http" ->
            IF IsConnect(c) THEN <<"upstream 200 and headers">> ELSE <<>>

\* the Err arm dropped: the error is returned and nothing is written
DispatchFailedSilent(h, outcome) ==
    Set(h, [pc |-> "done", result |-> "err", upstream |-> outcome])

\* the Err arms: log, write HTTP_SERVER_ERROR to the client, return Ok(())
DispatchFailed(h, outcome) ==
    Set(h, [pc |-> "done", result |-> "ok", upstream |-> outcome,
            cout |-> conn[h].cout \o <<HTTP_SERVER_ERROR>>])

\* the Ok arms: the streams are split and the two copies started
Established(h) ==
    Set(h, [pc |-> "pump", upstream |-> "open",
            uout |-> UpstreamWritten(conn[h]), uread |-> UpstreamConsumed(conn[h])])

\* the match on proxy_config: open the upstream, then pump or answer 500
Dispatch(h) ==
    /\ conn[h].pc = "dispatch"
    /\ \E outcome \in UpstreamOutcomes(conn[h]) :
          CASE outcome = "open" -> Established(h)
            [] outcome = "write_failed" ->
                  Set(h, [pc |-> "done", result |-> "err", upstream |-> outcome])
            [] OTHER -> DispatchFailed(h, outcome)
    /\ UNCHANGED <<harness, cellvars, watchvars, tokvars, listvars>>

-----------------------------------------------------------------------------
(* The byte-pump: tokio::try_join! of the two tokio::io::copy *)

DataCount(s) == Cardinality({i \in 1..Len(s) : s[i] = "data"})

\* the upstream sends a chunk and the copy to the client forwards it
UpstreamToClient(h) ==
    /\ conn[h].pc = "pump"
    /\ ~conn[h].u_eof
    /\ DataCount(conn[h].cout) < MaxData
    /\ Set(h, [cout |-> Append(conn[h].cout, "data")])
    /\ UNCHANGED <<harness, cellvars, watchvars, tokvars, listvars>>

\* the client sends a chunk and the copy to the upstream forwards it
ClientToUpstream(h) ==
    /\ conn[h].pc = "pump"
    /\ ~conn[h].c_eof
    /\ DataCount(conn[h].uout) < MaxData
    /\ Set(h, [uout |-> Append(conn[h].uout, "data")])
    /\ UNCHANGED <<harness, cellvars, watchvars, tokvars, listvars>>

\* the client closes its sending side: the copy from the client ends with Ok
ClientEof(h) ==
    /\ conn[h].pc = "pump"
    /\ ~conn[h].c_eof
    /\ Set(h, [c_eof |-> TRUE])
    /\ UNCHANGED <<harness, cellvars, watchvars, tokvars, listvars>>

\* the upstream closes its sending side: the copy from the upstream ends with Ok
UpstreamEof(h) ==
    /\ conn[h].pc = "pump"
    /\ ~conn[h].u_eof
    /\ Set(h, [u_eof |-> TRUE])
    /\ UNCHANGED <<harness, cellvars, watchvars, tokvars, listvars>>

\* both copies have ended with Ok: try_join! returns and the handler with it
PumpDone(h) ==
    /\ conn[h].pc = "pump"
    /\ conn[h].c_eof /\ conn[h].u_eof
    /\ Finish(h, "ok", <<>>)
    /\ UNCHANGED <<harness, cellvars, watchvars, tokvars, listvars>>

\* a copy fails with an I/O error: try_join! returns it at once
PumpError(h) ==
    /\ conn[h].pc = "pump"
    /\ Finish(h, "err", <<>>)
    /\ UNCHANGED <<harness, cellvars, watchvars, tokvars, listvars>>

-----------------------------------------------------------------------------
(* The config file and the notify events *)

\* the file is rewritten and notify reports a Modify event
ModifyFile ==
    /\ nevents < MaxEvents
    /\ \E content \in FileContents : file' = content
    /\ rx' = Append(rx, "modify")
    /\ nevents' = nevents + 1
    /\ UNCHANGED <<harness, cellvars, wpc, new_config, wlog, tokvars, listvars, conn>>

\* notify reports an event of another kind (access, create, remove)
OtherEvent ==
    /\ nevents < MaxEvents
    /\ rx' = Append(rx, "other")
    /\ nevents' = nevents + 1
    /\ UNCHANGED <<harness, cellvars, file, wpc, new_config, wlog, tokvars, listvars, conn>>

-----------------------------------------------------------------------------
(* config::watcher::spawn_config_watcher, one action per suspension point *)

\* the select! arm on cancel_token.cancelled()
WatcherShutdown ==
    /\ wpc = "select"
    /\ shutdown_token
    /\ wpc' = "stopped"
    /\ UNCHANGED <<harness, cellvars, file, rx, new_config, wlog, nevents, tokvars,
                   listvars, conn>>

\* the select! arm on rx.recv(): only a Modify event starts a reload cycle
WatcherRecv ==
    /\ wpc = "select"
    /\ rx # <<>>
    /\ rx' = Tail(rx)
    /\ wpc' = IF rx[1] = "modify" THEN "debounce" ELSE "select"
    /\ UNCHANGED <<harness, cellvars, file, new_config, wlog, nevents, tokvars,
                   listvars, conn>>

\* "Debounce: wait 200ms"
WatcherDebounce ==
    /\ wpc = "debounce"
    /\ wpc' = "drain"
    /\ UNCHANGED <<harness, cellvars, file, rx, new_config, wlog, nevents, tokvars,
                   listvars, conn>>

\* "drain any further events": one turn of the while-let loop.  A queued
\* Modify is absorbed and the loop goes on; any other event, or no event within
\* 10 ms, ends the drain.
WatcherDrain ==
    /\ wpc = "drain"
    /\ IF rx # <<>>
       THEN rx' = Tail(rx) /\ wpc' = IF rx[1] = "modify" THEN "drain" ELSE "load"
       ELSE rx' = rx /\ wpc' = "load"
    /\ UNCHANGED <<harness, cellvars, file, new_config, wlog, nevents, tokvars,
                   listvars, conn>>

\* a reload that cancels the connections before it knows that the file loads
WatcherLoadCancelFirst ==
    /\ wpc = "load"
    /\ cancelled' = cancelled \cup {connections_token}
    /\ connections_token' = connections_token + 1
    /\ IF file = Malformed
       THEN wlog' = "reload_failed" /\ wpc' = "select" /\ UNCHANGED new_config
       ELSE new_config' = file /\ wpc' = "sleep100" /\ UNCHANGED wlog
    /\ UNCHANGED <<harness, cellvars, file, rx, nevents, listvars, conn>>

\* Config::load: on Err "Failed to reload config ... Keeping old config" and
\* continue; on Ok go on to cancel the connections
WatcherLoad ==
    /\ wpc = "load"
    /\ IF file = Malformed
       THEN wlog' = "reload_failed" /\ wpc' = "select" /\ UNCHANGED new_config
       ELSE new_config' = file /\ wpc' = "cancel" /\ UNCHANGED wlog
    /\ UNCHANGED <<harness, cellvars, file, rx, nevents, tokvars, listvars, conn>>

\* a reload that leaves the installed token alone
WatcherCancelNone ==
    /\ wpc = "cancel"
    /\ wpc' = "sleep100"
    /\ UNCHANGED <<harness, cellvars, file, rx, new_config, wlog, nevents, tokvars,
                   listvars, conn>>

\* under the mutex: cancel the installed token and install a fresh one
WatcherCancel ==
    /\ wpc = "cancel"
    /\ cancelled' = cancelled \cup {connections_token}
    /\ connections_token' = connections_token + 1
    /\ wpc' = "sleep100"
    /\ UNCHANGED <<harness, cellvars, file, rx, new_config, wlog, nevents, listvars, conn>>

\* the 100 ms sleep before the write lock is asked for
WatcherSleep100 ==
    /\ wpc = "sleep100"
    /\ wpc' = "write1"
    /\ UNCHANGED <<harness, cellvars, file, rx, new_config, wlog, nevents, tokvars,
                   listvars, conn>>

\* a cell whose write does not wait for the read guards
WriteGrantedUnguarded(log) ==
    /\ config' = new_config
    /\ hist' = Append(hist, new_config)
    /\ wwait' = FALSE
    /\ new_config' = None
    /\ wlog' = log
    /\ wpc' = "select"
    /\ UNCHANGED <<harness, readers, file, rx, nevents, tokvars, listvars, conn>>

\* config.write() is granted: *guard = new_config, and the guard is dropped
WriteGranted(log) ==
    /\ readers = {}
    /\ config' = new_config
    /\ hist' = Append(hist, new_config)
    /\ wwait' = FALSE
    /\ new_config' = None
    /\ wlog' = log
    /\ wpc' = "select"
    /\ UNCHANGED <<harness, readers, file, rx, nevents, tokvars, listvars, conn>>

\* config.write() finds read guards out and queues behind them
WriteQueued ==
    /\ readers # {}
    /\ ~wwait
    /\ wwait' = TRUE
    /\ UNCHANGED <<harness, config, readers, hist, watchvars, tokvars, listvars, conn>>

\* a write request that stays queued after its timeout has expired
WriteTimeoutStaysQueued(log, next, kept) ==
    /\ readers # {}
    /\ wwait
    /\ wwait' = TRUE
    /\ wlog' = log
    /\ wpc' = next
    /\ new_config' = kept
    /\ UNCHANGED <<harness, config, readers, hist, file, rx, nevents, tokvars,
                   listvars, conn>>

\* the timeout around config.write() expires with read guards still out
WriteTimeout(log, next, kept) ==
    /\ readers # {}
    /\ wwait
    /\ wwait' = FALSE
    /\ wlog' = log
    /\ wpc' = next
    /\ new_config' = kept
    /\ UNCHANGED <<harness, config, readers, hist, file, rx, nevents, tokvars,
                   listvars, conn>>

\* the first attempt, bounded by 3 s
WatcherWrite1Granted == wpc = "write1" /\ WriteGranted("updated")
WatcherWrite1Queued == wpc = "write1" /\ WriteQueued
WatcherWrite1Timeout == wpc = "write1" /\ WriteTimeout("write_timeout", "sleep500", new_config)

\* the 500 ms sleep before the second attempt
WatcherSleep500 ==
    /\ wpc = "sleep500"
    /\ wpc' = "write2"
    /\ UNCHANGED <<harness, cellvars, file, rx, new_config, wlog, nevents, tokvars,
                   listvars, conn>>

\* the second attempt, bounded by 500 ms
WatcherWrite2Granted == wpc = "write2" /\ WriteGranted("updated_second_attempt")
WatcherWrite2Queued == wpc = "write2" /\ WriteQueued
WatcherWrite2Timeout == wpc = "write2" /\ WriteTimeout("write_timeout_second", "select", None)

-----------------------------------------------------------------------------
(* The specifications *)

HandlerStep(h) ==
    \/ TaskStart(h)
    \/ CheckCancelled(h)
    \/ ParseRequest(h)
    \/ ExtractTarget(h)
    \/ ReadLock(h)
    \/ Lookup(h)
    \/ NotFoundWrite(h)
    \/ Dispatch(h)
    \/ PumpDone(h)

PeerStep(h) ==
    \/ UpstreamToClient(h)
    \/ ClientToUpstream(h)
    \/ ClientEof(h)
    \/ UpstreamEof(h)
    \/ PumpError(h)

WatcherStep ==
    \/ WatcherRecv
    \/ WatcherDebounce
    \/ WatcherDrain
    \/ WatcherLoad
    \/ WatcherCancel
    \/ WatcherSleep100
    \/ WatcherWrite1Granted
    \/ WatcherWrite1Queued
    \/ WatcherWrite1Timeout
    \/ WatcherSleep500
    \/ WatcherWrite2Granted
    \/ WatcherWrite2Queued
    \/ WatcherWrite2Timeout

\* The system: listener, watcher and handlers.  The peers of a tunnel may
\* close; what they send over it is left to SpecConn.
Next ==
    \/ Accept
    \/ ModifyFile
    \/ OtherEvent
    \/ WatcherStep
    \/ \E h \in Conns : HandlerStep(h)
    \/ \E h \in Conns : ClientEof(h) \/ UpstreamEof(h)

Spec == Init /\ [][Next]_vars

\* One accepted connection under a fixed policy, with everything a client and
\* an upstream can do.
InitConn ==
    /\ call = NoCall
    /\ ret = NoRet
    /\ px = NoExchange
    /\ config \in {PolicyDirect, PolicyA, PolicyRules}
    /\ readers = {}
    /\ wwait = FALSE
    /\ file = config
    /\ rx = <<>>
    /\ wpc = "stopped"
    /\ new_config = None
    /\ wlog = "none"
    /\ connections_token = 0
    /\ cancelled = {}
    /\ shutdown_token = FALSE
    /\ lpc = "stopped"
    /\ hist = <<config>>
    /\ nevents = 0
    /\ \E sent \in ConnRequests : conn = <<[NewConn(sent) EXCEPT !.acc_ver = 1]>>

NextConn == \E h \in Conns : HandlerStep(h) \/ PeerStep(h)

SpecConn == InitConn /\ [][NextConn]_vars

\* the tasks of the runtime are scheduled fairly; clients, upstreams and the
\* filesystem are not obliged to do anything
FairSpec ==
    /\ Spec
    /\ WF_vars(WatcherStep)
    /\ \A h \in 1..MaxConns : WF_vars(h \in Conns /\ HandlerStep(h))

\* The system with the shutdown token.
NextShutdown ==
    \/ Next
    \/ Shutdown
    \/ ListenerShutdown
    \/ WatcherShutdown

SpecShutdown == Init /\ [][NextShutdown]_vars

-----------------------------------------------------------------------------
(* Claims about the reload cycle and the policy a handler is dispatched by *)

\* C2: while a handler is in its byte-pump, once the epoch token it was given
\* is cancelled the copy loops are abandoned and the handler returns, even when
\* neither peer closes or sends anything.
C2_CancelledPumpReturns ==
    \A h \in 1..MaxConns :
        (h \in Conns /\ conn[h].pc = "pump" /\ conn[h].token \in cancelled)
            ~> (h \in Conns /\ conn[h].pc = "done")

\* the watcher leaves "load" with the file unreadable or unparsable
ReloadFails == wpc = "load" /\ wpc' # "load" /\ file = Malformed

\* the profile a policy gives a host: Some(profile), or None when the selected
\* name is absent from its profiles
ProfileFor(cfg, host) ==
    LET name == select_profile(cfg, host)
    IN  IF name \in DOMAIN cfg.profiles THEN Some(cfg.profiles[name]) ELSE None

\* the handler has looked its profile up; Some(profile) or None as ProfileFor
Resolved(c) == c.pc \in {"dispatch", "not_found", "pump"} \/ (c.pc = "done" /\ c.profile_name # "")
ResolvedTo(c) == IF c.proxy_config = NoProfile THEN None ELSE Some(c.proxy_config)

C3_LaterDispatch ==
    \A h \in Conns :
        (conn[h].acc_log = "reload_failed" /\ conn[h].acc_ver = Len(hist) /\ Resolved(conn[h]))
            => ResolvedTo(conn[h]) = ProfileFor(hist[Len(hist)], conn[h].target_host)

\* C3: when the reload fails to read or parse the file, the cell still holds
\* the previous policy, the epoch token is neither cancelled nor replaced, no
\* handler or listener is affected, and a connection accepted afterwards is
\* dispatched by the previous policy.
C3_FailedReloadKeepsPolicy ==
    /\ [][ReloadFails =>
             /\ config' = config /\ hist' = hist
             /\ connections_token' = connections_token /\ cancelled' = cancelled
             /\ conn' = conn /\ lpc' = lpc /\ readers' = readers
             /\ wpc' = "select" /\ wlog' = "reload_failed"]_vars
    /\ [](config = hist[Len(hist)] /\ C3_LaterDispatch)

\* a connection accepted after a failed reload is tunnelling by the policy the
\* process started with
C3_Witness ==
    \E h \in Conns :
        /\ conn[h].acc_log = "reload_failed" /\ file = Malformed
        /\ conn[h].pc = "pump" /\ conn[h].proxy_config = Direct
        /\ config = PolicyDirect /\ connections_token = 0 /\ cancelled = {}

\* C4: a connection accepted after a successful reload has replaced the policy
\* is dispatched by the profile that policy (or one installed still later)
\* selects for its host, never by a policy replaced before it was accepted.
C4_DispatchedByInstalledPolicy ==
    \A h \in Conns :
        Resolved(conn[h]) =>
            \E v \in conn[h].acc_ver..Len(hist) :
                ResolvedTo(conn[h]) = ProfileFor(hist[v], conn[h].target_host)

\* a connection accepted after the swap from direct to the upstream A tunnels
\* through A
C4_Witness ==
    \E h \in Conns :
        /\ conn[h].acc_ver = 2 /\ hist = <<PolicyDirect, PolicyA>>
        /\ conn[h].pc = "pump"
        /\ conn[h].proxy_config = SysProfiles["A"]

\* a rule or the default of the policy names a profile absent from profiles
Dangling(cfg) ==
    \/ cfg.switch.default \notin DOMAIN cfg.profiles
    \/ \E i \in 1..Len(cfg.switch.rules) : cfg.switch.rules[i].profile \notin DOMAIN cfg.profiles

\* the handler's lookup resolved to a name that is absent from profiles
LookupMissed(c) == c.profile_name # "" /\ c.proxy_config = NoProfile

\* C13: a policy whose rule or default names an absent profile loads
\* successfully; a lookup that resolves to such a name makes the handler write
\* the 500 line and return without opening any upstream.
C13_DanglingProfileAnswers500 ==
    /\ [][(wpc = "load" /\ wpc' # "load" /\ file # Malformed /\ Dangling(file)) =>
             (new_config' = file /\ wpc' = "cancel" /\ wlog' = wlog)]_vars
    /\ [](\A h \in Conns :
             LookupMissed(conn[h]) =>
                 /\ conn[h].pc \in {"not_found", "done"}
                 /\ conn[h].upstream = "none" /\ conn[h].uout = <<>>
                 /\ conn[h].pc = "done" =>
                        conn[h].cout = <<HTTP_SERVER_ERROR>> /\ conn[h].result = "ok")

\* the policy with the dangling default is installed and a connection to a
\* host no rule matches has been answered
C13_Witness ==
    \E h \in Conns :
        /\ config = PolicyRules /\ Dangling(config)
        /\ conn[h].profile_name = "missing" /\ conn[h].pc = "done"
        /\ conn[h].cout = <<HTTP_SERVER_ERROR>>

-----------------------------------------------------------------------------
(* Claims about what one connection's client sees *)

StatusLines == {HTTP_CONNECTION_ESTABLISHED, HTTP_BAD_REQUEST, HTTP_METHOD_NOT_ALLOWED,
                HTTP_SERVER_ERROR}

Dispatched(c) == c.upstream # "none"

\* C5: for a CONNECT dispatched Direct, when the TCP connection to the target
\* succeeds the proxy writes the 200 Connection Established line to the client
\* before any tunnelled byte and then pumps; when it fails the proxy writes the
\* 500 line and returns without pumping.
C5_DirectConnectReplies ==
    \A h \in Conns :
        (Dispatched(conn[h]) /\ IsConnect(conn[h]) /\ conn[h].proxy_config = Direct) =>
            /\ conn[h].upstream = "open" =>
                  conn[h].cout # <<>> /\ conn[h].cout[1] = HTTP_CONNECTION_ESTABLISHED
            /\ conn[h].upstream = "unreachable" =>
                  conn[h].cout = <<HTTP_SERVER_ERROR>> /\ conn[h].pc = "done"

\* C6: for a CONNECT dispatched to a Socks5 or HTTP upstream, once the
\* handshake succeeds the proxy itself writes the 200 Connection Established
\* line to the client before pumping; an HTTP upstream's own status line and
\* headers are consumed and never reach the client.
C6_UpstreamConnectReplies ==
    \A h \in Conns :
        (conn[h].upstream = "open" /\ IsConnect(conn[h])
            /\ conn[h].proxy_config.scheme \in {"socks5", "http"}) =>
            /\ conn[h].cout # <<>> /\ conn[h].cout[1] = HTTP_CONNECTION_ESTABLISHED
            /\ \A i \in 1..Len(conn[h].cout) :
                  conn[h].cout[i] \in {HTTP_CONNECTION_ESTABLISHED, "data"}
            /\ conn[h].proxy_config.scheme = "http" =>
                  conn[h].uread = <<"upstream 200 and headers">>

\* C7: whenever opening the upstream fails (the direct TCP connect fails, the
\* SOCKS5 handshake fails, the HTTP upstream cannot be reached or rejects the
\* CONNECT) the client receives exactly one 500 line, no byte-pump is started
\* and the handler returns.
C7_DispatchFailureAnswers500 ==
    \A h \in Conns :
        conn[h].upstream \in {"unreachable", "rejected"} =>
            /\ conn[h].pc = "done"
            /\ conn[h].cout = <<HTTP_SERVER_ERROR>>
            /\ conn[h].uout = <<>> /\ ~conn[h].c_eof /\ ~conn[h].u_eof

\* the HTTP upstream has rejected a CONNECT and the handler has returned
C7_Witness ==
    \E h \in Conns :
        /\ conn[h].upstream = "rejected" /\ conn[h].proxy_config.scheme = "http"
        /\ conn[h].pc = "done" /\ conn[h].cout = <<HTTP_SERVER_ERROR>>

\* C8: every accepted connection ends with a status line written by the proxy
\* (200 Connection Established, 400, 405 or 500) or with a close after
\* forwarding succeeded; none is closed with no response at all otherwise.
C8_EveryConnectionAnswered ==
    \A h \in Conns :
        conn[h].pc = "done" =>
            \/ conn[h].cout # <<>> /\ conn[h].cout[1] \in StatusLines
            \/ conn[h].upstream = "open" /\ conn[h].result = "ok"

HasColon(s) == Contains(s, ":")
LastColon(s) == CHOOSE i \in 1..Len(s) : s[i] = ":" /\ \A j \in (i + 1)..Len(s) : s[j] # ":"

\* the request was parsed and extract_host_and_port has returned
Extracted(c) == c.request # NoRequest /\ c.pc # "extract"

\* C9: a CONNECT target is split at its final ':' into host and u16 port; when
\* the port is missing or is no valid u16 the handler writes 400 Bad Request,
\* then fails, and opens no upstream.
C9_ConnectTargetOr400 ==
    \A h \in Conns :
        (Extracted(conn[h]) /\ conn[h].request.method = "CONNECT") =>
            LET t == conn[h].request.target
                bad == ~HasColon(t) \/ ~ParseU16(SubSeq(t, LastColon(t) + 1, Len(t))).ok
            IN  IF bad
                THEN /\ conn[h].cout = <<HTTP_BAD_REQUEST>>
                     /\ conn[h].pc = "done" /\ conn[h].result = "err"
                     /\ conn[h].upstream = "none"
                ELSE /\ conn[h].target_host = SubSeq(t, 1, LastColon(t) - 1)
                     /\ conn[h].port = ParseU16(SubSeq(t, LastColon(t) + 1, Len(t))).val

\* the authority a non-CONNECT request names: its host header, else the
\* authority of its http:// target
Authority(req) ==
    IF "host" \in DOMAIN req.headers THEN Some(req.headers["host"])
    ELSE IF StartsWith(req.target, HttpScheme)
         THEN LET rest == StripPrefix(req.target, HttpScheme)
              IN  Some(IF Contains(rest, "/") THEN SubSeq(rest, 1, FirstIndex(rest, "/") - 1)
                       ELSE rest)
         ELSE None

\* C10: for a non-CONNECT request the host comes from the host header, else
\* from the authority of an http:// target; an authority with no port gives
\* port 443 when the target begins with https:// and 80 otherwise; with no host
\* derivable the request fails.
C10_TargetOfPlainRequest ==
    \A h \in Conns :
        (Extracted(conn[h]) /\ conn[h].request.method # "CONNECT") =>
            LET a == Authority(conn[h].request)
            IN  IF ~a.some
                THEN conn[h].pc = "done" /\ conn[h].result = "err" /\ conn[h].upstream = "none"
                ELSE /\ conn[h].target_host =
                            (IF HasColon(a.v) THEN SubSeq(a.v, 1, FirstIndex(a.v, ":") - 1)
                             ELSE a.v)
                     /\ ~HasColon(a.v) =>
                            conn[h].port = (IF StartsWith(conn[h].request.target, HttpsScheme)
                                            THEN 443 ELSE 80)

-----------------------------------------------------------------------------
(* protocols::socks::forward_to_proxy, one call and its caller *)

SOCKS_VERSION == 5
NO_AUTHENTICATION == 0
CONNECT_COMMAND == 1
IPV4_TYPE == 1
DOMAIN_TYPE == 3
IPV6_TYPE == 4
SUCCESS_REPLY == 0

\* str::as_bytes on the characters the model's host names use
ByteOf(c) ==
    CASE c = "a" -> 97 [] c = "b" -> 98 [] c = "c" -> 99 [] c = "u" -> 117
      [] c = "x" -> 120 [] c = "." -> 46 [] c = ":" -> 58 [] c = "/" -> 47
as_bytes(str) == [i \in 1..Len(str) |-> ByteOf(str[i])]

\* u16::to_be_bytes and u16::to_le_bytes
to_be_bytes(n) == <<n \div 256, n % 256>>
to_le_bytes(n) == <<n % 256, n \div 256>>

RECURSIVE Concat(_)
Concat(ss) == IF ss = <<>> THEN <<>> ELSE Head(ss) \o Concat(Tail(ss))

IsPrefix(s, t) == Len(s) <= Len(t) /\ SubSeq(t, 1, Len(s)) = s

\* the greeting: version 5, one method, NO-AUTH
SocksGreeting == <<SOCKS_VERSION, 1, NO_AUTHENTICATION>>

\* a request that sends the port low byte first
SocksRequestWritesLittleEndian(target, port) ==
    <<<<SOCKS_VERSION>>, <<CONNECT_COMMAND>>, <<0>>, <<DOMAIN_TYPE>>,
      <<Len(as_bytes(target)) % 256>>, as_bytes(target), to_le_bytes(port)>>

\* the seven write_all calls of the request, in order
SocksRequestWrites(target, port) ==
    <<<<SOCKS_VERSION>>, <<CONNECT_COMMAND>>, <<0>>, <<DOMAIN_TYPE>>,
      <<Len(as_bytes(target)) % 256>>, as_bytes(target), to_be_bytes(port)>>

SocksTargets == {HostAB, HostC}
SocksPorts == {80, 443}
SocksMethods == {"CONNECT", "GET"}

\* what the upstream may answer to the greeting and to the request
GreetReplies == {<<5, 0>>, <<5, 255>>, <<5, 2>>, <<4, 0>>}
ReplyHeads == {<<5, 0, 0, 1>>, <<5, 0, 0, 3>>, <<5, 0, 0, 4>>, <<5, 0, 0, 9>>,
               <<5, 1, 0, 1>>, <<5, 5, 0, 3>>, <<0, 0, 0, 1>>}
BoundDomainLens == {0, 2}
Zeros(n) == [i \in 1..n |-> 0]

\* the first bytes of what the client sends through an established tunnel
ClientData == <<22, 3, 1>>

SocksCall(target, port, method) ==
    [proto |-> "socks5", pc |-> "dial", method |-> method,
     request |-> [target |-> target, port |-> port],
     proxy_host |-> UpstreamHost, proxy_port |-> 1080,
     dialed |-> <<>>, wire |-> <<>>, got |-> <<>>, cout |-> <<>>]

InitSocks ==
    /\ call = NoCall
    /\ ret = NoRet
    /\ px \in {SocksCall(t, p, m) : t \in SocksTargets, p \in SocksPorts, m \in SocksMethods}
    /\ SysIdle

PxSet(fields) == px' = fields @@ px
InSocks(pc) == px.proto = "socks5" /\ px.pc = pc

\* TcpStream::connect to the upstream proxy
SocksDial ==
    /\ InSocks("dial")
    /\ \/ PxSet([pc |-> "greet", dialed |-> <<px.proxy_host, px.proxy_port>>])
       \/ PxSet([pc |-> "err"])
    /\ UNCHANGED <<call, ret, sysvars>>

\* write_all of the greeting; a failing write leaves a strict prefix behind
SocksGreet ==
    /\ InSocks("greet")
    /\ \/ PxSet([pc |-> "greet_reply", wire |-> px.wire \o SocksGreeting])
       \/ \E k \in 0..(Len(SocksGreeting) - 1) :
             PxSet([pc |-> "err", wire |-> px.wire \o SubSeq(SocksGreeting, 1, k)])
    /\ UNCHANGED <<call, ret, sysvars>>

\* read_exact of the two-byte answer to the greeting, and its check
SocksGreetReply ==
    /\ InSocks("greet_reply")
    /\ \/ \E response \in GreetReplies :
             PxSet([pc |-> IF response[1] # SOCKS_VERSION \/ response[2] # NO_AUTHENTICATION
                           THEN "err" ELSE "request",
                    got |-> px.got \o response])
       \/ PxSet([pc |-> "err"])
    /\ UNCHANGED <<call, ret, sysvars>>

\* the request: the first n write_all calls succeed; when n < 7 the next one
\* fails and leaves a strict prefix of its bytes behind
SocksRequest ==
    /\ InSocks("request")
    /\ LET writes == SocksRequestWrites(px.request.target, px.request.port)
       IN  \/ PxSet([pc |-> "reply_head", wire |-> px.wire \o Concat(writes)])
           \/ \E n \in 0..(Len(writes) - 1) : \E k \in 0..(Len(writes[n + 1]) - 1) :
                 PxSet([pc |-> "err",
                        wire |-> px.wire \o Concat(SubSeq(writes, 1, n))
                                         \o SubSeq(writes[n + 1], 1, k)])
    /\ UNCHANGED <<call, ret, sysvars>>

\* a reply head whose REP is not looked at
SocksReplyHeadUnchecked ==
    /\ InSocks("reply_head")
    /\ \/ \E response_header \in ReplyHeads :
             PxSet([pc |-> "reply_addr", got |-> px.got \o response_header])
       \/ PxSet([pc |-> "err"])
    /\ UNCHANGED <<call, ret, sysvars>>

\* read_exact of VER REP RSV ATYP within 10 s, and the check of REP
SocksReplyHead ==
    /\ InSocks("reply_head")
    /\ \/ \E response_header \in ReplyHeads :
             PxSet([pc |-> IF response_header[2] # SUCCESS_REPLY THEN "err" ELSE "reply_addr",
                    got |-> px.got \o response_header])
       \/ PxSet([pc |-> "err"])
    /\ UNCHANGED <<call, ret, sysvars>>

\* the ATYP byte of the reply head that was read
ReplyAtyp == px.got[Len(SocksGreeting) + 3]

\* the bound address, by ATYP: 4+2 bytes, 16+2 bytes, or a length byte and
\* length+2 bytes; any other ATYP is an error; every read may time out or fail
SocksReplyAddr ==
    /\ InSocks("reply_addr")
    /\ \/ /\ ReplyAtyp = IPV4_TYPE
          /\ PxSet([pc |-> "ready", got |-> px.got \o Zeros(6)])
       \/ /\ ReplyAtyp = IPV6_TYPE
          /\ PxSet([pc |-> "ready", got |-> px.got \o Zeros(18)])
       \/ /\ ReplyAtyp = DOMAIN_TYPE
          /\ \E len \in BoundDomainLens :
                \/ PxSet([pc |-> "ready", got |-> px.got \o <<len>> \o Zeros(len + 2)])
                \/ PxSet([pc |-> "err", got |-> px.got \o <<len>>])
       \/ PxSet([pc |-> "err"])
    /\ UNCHANGED <<call, ret, sysvars>>

\* the caller's Ok arm: a CONNECT goes to the pump, any other request is
\* written to the stream first; either way the client's bytes now go upstream
SocksCallerOk ==
    /\ InSocks("ready")
    /\ PxSet([pc |-> "pump", wire |-> px.wire \o ClientData])
    /\ UNCHANGED <<call, ret, sysvars>>

\* the caller's Err arm: "Could not connect through proxy", 500 to the client
SocksCallerErr ==
    /\ InSocks("err")
    /\ PxSet([pc |-> "answered", cout |-> px.cout \o <<HTTP_SERVER_ERROR>>])
    /\ UNCHANGED <<call, ret, sysvars>>

\* the 10 s timeout around the reads of the reply head and of the bound
\* address expires: "Timeout waiting for proxy response".  The read of the
\* answer to the greeting is not under a timeout.
SocksReadTimeout ==
    /\ InSocks("reply_head") \/ InSocks("reply_addr")
    /\ PxSet([pc |-> "err"])
    /\ UNCHANGED <<call, ret, sysvars>>

NextSocks ==
    \/ SocksDial
    \/ SocksGreet
    \/ SocksGreetReply
    \/ SocksRequest
    \/ SocksReplyHead
    \/ SocksReplyAddr
    \/ SocksReadTimeout
    \/ SocksCallerOk
    \/ SocksCallerErr

SpecSocks == InitSocks /\ [][NextSocks]_vars

\* everything forward_to_proxy writes when nothing fails
SocksHandshake ==
    SocksGreeting \o <<5, 1, 0, 3, Len(px.request.target)>>
                  \o as_bytes(px.request.target)
                  \o <<px.request.port \div 256, px.request.port % 256>>

\* the steps of the client, in order
SocksOrder ==
    {<<"dial", "greet">>, <<"greet", "greet_reply">>, <<"greet_reply", "request">>,
     <<"request", "reply_head">>, <<"reply_head", "reply_addr">>, <<"reply_addr", "ready">>,
     <<"ready", "pump">>}

\* the length of the bound address that follows a reply head with ATYP t
BoundAddrOk(addr, t) ==
    CASE t = 1 -> Len(addr) = 6
      [] t = 4 -> Len(addr) = 18
      [] t = 3 -> Len(addr) >= 1 /\ Len(addr) = 1 + addr[1] + 2
      [] OTHER -> FALSE

\* C14: the SOCKS5 client's steps occur in the order Dial, Greet, Request,
\* ReplyHead, ReplyAddr, Ready; the upstream receives exactly 05 01 00 and,
\* only after it has answered 05 00, the request 05 01 00 03 len host port
\* (big-endian) naming the target and not the upstream; the stream is handed to
\* the byte-pump only after ReplyAddr has completed.
C14_SocksStepsInOrder ==
    /\ [][(px.proto = "socks5" /\ px'.pc # px.pc /\ px'.pc \notin {"err", "answered"}) =>
             <<px.pc, px'.pc>> \in SocksOrder]_vars
    /\ [](px.proto = "socks5" =>
            /\ px.pc # "pump" => IsPrefix(px.wire, SocksHandshake)
            /\ px.pc # "dial" /\ px.dialed # <<>> => px.dialed = <<UpstreamHost, 1080>>
            /\ Len(px.wire) > Len(SocksGreeting) => IsPrefix(<<5, 0>>, px.got)
            /\ px.pc \in {"reply_head", "reply_addr", "ready"} => px.wire = SocksHandshake
            /\ px.pc \in {"ready", "pump"} =>
                  /\ IsPrefix(SocksHandshake, px.wire)
                  /\ Len(px.got) >= 6 /\ px.got[4] = 0
                  /\ BoundAddrOk(SubSeq(px.got, 7, Len(px.got)), px.got[6]))

\* a CONNECT to a.b:443 through the upstream u:1080 has reached the pump after
\* a DOMAIN-typed reply
C14_Witness ==
    /\ px.proto = "socks5" /\ px.pc = "pump"
    /\ px.request = [target |-> HostAB, port |-> 443]
    /\ px.wire = <<5, 1, 0, 5, 1, 0, 3, 3, 97, 46, 98, 1, 187>> \o ClientData
    /\ px.got = <<5, 0, 5, 0, 0, 3, 2, 0, 0, 0, 0>>

\* what the upstream has answered so far is a rejection: a greeting reply
\* other than 05 00, a REP other than 0, an ATYP that is no address type
GreetingRefused == Len(px.got) >= 2 /\ SubSeq(px.got, 1, 2) # <<5, 0>>
RequestRefused == Len(px.got) >= 6 /\ px.got[4] # 0
AtypInvalid == Len(px.got) >= 6 /\ px.got[6] \notin {1, 3, 4}

\* C15: after a greeting reply other than 05 00, a reply head whose REP is not
\* 0, or a reply ATYP other than IPv4, IPv6 or DOMAIN, the handshake ends with
\* an error: Ready is never reached, no stream is returned to the caller and
\* no client byte is sent through that upstream.
C15_SocksRejectedNeverReady ==
    (px.proto = "socks5" /\ (GreetingRefused \/ RequestRefused \/ AtypInvalid)) =>
        /\ px.pc \notin {"ready", "pump"}
        /\ (GreetingRefused \/ RequestRefused) => px.pc \in {"err", "answered"}
        /\ AtypInvalid => px.pc \in {"reply_addr", "err", "answered"}
        /\ IsPrefix(px.wire, SocksHandshake)
        /\ px.pc = "answered" => px.cout = <<HTTP_SERVER_ERROR>>

\* the upstream answered the request with REP 5 and the caller has answered
\* the client
C15_Witness ==
    /\ px.proto = "socks5" /\ px.pc = "answered"
    /\ px.got = <<5, 0, 5, 5, 0, 3>>
    /\ px.wire = SocksHandshake

-----------------------------------------------------------------------------
(* protocols::http::forward_to_proxy (tunnel mode), one call and its caller *)

CRLF == <<"\r", "\n">>
Whitespace == {" ", "\t", "\r", "\n"}

\* str::trim
RECURSIVE TrimStart(_)
TrimStart(str) ==
    IF str # <<>> /\ str[1] \in Whitespace THEN TrimStart(Tail(str)) ELSE str
RECURSIVE TrimEnd(_)
TrimEnd(str) ==
    IF str # <<>> /\ str[Len(str)] \in Whitespace
    THEN TrimEnd(SubSeq(str, 1, Len(str) - 1)) ELSE str
Trim(str) == TrimEnd(TrimStart(str))

\* the decimal digits format! writes for an unsigned number
RECURSIVE ToDec(_)
ToDec(n) == IF n < 10 THEN <<Digits[n + 1]>> ELSE ToDec(n \div 10) \o <<Digits[(n % 10) + 1]>>

Http11Ok == <<"H", "T", "T", "P", "/", "1", ".", "1", " ", "2", "0", "0">>
Http10Ok == <<"H", "T", "T", "P", "/", "1", ".", "0", " ", "2", "0", "0">>

\* format!("CONNECT {target_host}:{target_port} HTTP/1.1\r\nHost: ...\r\n") and
\* the closing "\r\n"; no credentials are passed by the caller
ConnectRequest(target_host, target_port) ==
    <<"C", "O", "N", "N", "E", "C", "T", " ">> \o target_host \o <<":">> \o ToDec(target_port) \o <<" ", "H", "T", "T", "P", "/", "1", ".", "1">> \o CRLF
        \o <<"H", "o", "s", "t", ":", " ">> \o target_host \o <<":">> \o ToDec(target_port) \o CRLF
        \o CRLF

\* what an upstream may send as its first line, and as a later line
UpstreamStatusLines ==
    {<<"H", "T", "T", "P", "/", "1", ".", "1", " ", "2", "0", "0", " ", "O", "K", "\r", "\n">>,
     <<"H", "T", "T", "P", "/", "1", ".", "0", " ", "2", "0", "0", " ", "C", "o", "n", "n", "e", "c", "t", "i", "o", "n", " ", "e", "s", "t", "a", "b", "l", "i", "s", "h", "e", "d", "\r", "\n">>,
     <<"H", "T", "T", "P", "/", "1", ".", "1", " ", "4", "0", "7", " ", "P", "r", "o", "x", "y", " ", "A", "u", "t", "h", "e", "n", "t", "i", "c", "a", "t", "i", "o", "n", " ", "R", "e", "q", "u", "i", "r", "e", "d", "\r", "\n">>,
     <<"H", "T", "T", "P", "/", "1", ".", "1", " ", "5", "0", "2", " ", "B", "a", "d", " ", "G", "a", "t", "e", "w", "a", "y", "\r", "\n">>}
UpstreamHeaderLines == {<<"V", "i", "a", ":", " ", "1", ".", "1", " ", "u", "\r", "\n">>}

\* the longest run of header lines an upstream sends before its blank line
MaxHeaderLines == 2

TunnelCall(target_host, target_port) ==
    [proto |-> "http", pc |-> "dial", target_host |-> target_host, target_port |-> target_port,
     proxy_host |-> UpstreamHost, proxy_port |-> 3128,
     dialed |-> <<>>, wire |-> <<>>, lines |-> <<>>, cout |-> <<>>]

InitTunnel ==
    /\ call = NoCall
    /\ ret = NoRet
    /\ px \in {TunnelCall(t, p) : t \in SocksTargets, p \in SocksPorts}
    /\ SysIdle

InTunnel(pc) == px.proto = "http" /\ px.pc = pc

\* TcpStream::connect to the upstream proxy
TunnelDial ==
    /\ InTunnel("dial")
    /\ \/ PxSet([pc |-> "write", dialed |-> <<px.proxy_host, px.proxy_port>>])
       \/ PxSet([pc |-> "err"])
    /\ UNCHANGED <<call, ret, sysvars>>

\* stream.write_all(request)
TunnelWrite ==
    /\ InTunnel("write")
    /\ LET request == ConnectRequest(px.target_host, px.target_port)
       IN  \/ PxSet([pc |-> "status", wire |-> px.wire \o request])
           \/ \E k \in {0, Len(request) - 1} :
                 PxSet([pc |-> "err", wire |-> px.wire \o SubSeq(request, 1, k)])
    /\ UNCHANGED <<call, ret, sysvars>>

\* read_line: a line with its terminator, or the empty string at end of stream
ReadLineEof == <<>>

\* the status line within 10 s, and the starts_with check
TunnelStatus ==
    /\ InTunnel("status")
    /\ \/ \E response \in UpstreamStatusLines \cup {ReadLineEof} :
             PxSet([pc |-> IF ~StartsWith(response, Http11Ok) /\ ~StartsWith(response, Http10Ok)
                           THEN "err" ELSE "headers",
                    lines |-> Append(px.lines, response)])
       \/ PxSet([pc |-> "err"])
    /\ UNCHANGED <<call, ret, sysvars>>

\* one turn of the loop that reads and discards the response headers
TunnelHeader ==
    /\ InTunnel("headers")
    /\ \/ \E line \in {l \in UpstreamHeaderLines : Len(px.lines) <= MaxHeaderLines}
                         \cup {CRLF, ReadLineEof} :
             PxSet([pc |-> IF Trim(line) = <<>> THEN "ready" ELSE "headers",
                    lines |-> Append(px.lines, line)])
       \/ PxSet([pc |-> "err"])
    /\ UNCHANGED <<call, ret, sysvars>>

\* the caller's Ok arm: the byte-pump
TunnelCallerOk ==
    /\ InTunnel("ready")
    /\ PxSet([pc |-> "pump", wire |-> px.wire \o ClientData])
    /\ UNCHANGED <<call, ret, sysvars>>

\* the caller's Err arm: "Could not connect through proxy", 500 to the client
TunnelCallerErr ==
    /\ InTunnel("err")
    /\ PxSet([pc |-> "answered", cout |-> px.cout \o <<HTTP_SERVER_ERROR>>])
    /\ UNCHANGED <<call, ret, sysvars>>

NextTunnel ==
    \/ TunnelDial
    \/ TunnelWrite
    \/ TunnelStatus
    \/ TunnelHeader
    \/ TunnelCallerOk
    \/ TunnelCallerErr

SpecTunnel == InitTunnel /\ [][NextTunnel]_vars

\* the line is a status line HTTP/1.x 200
IsStatus200(line) ==
    LET parts == Split(Trim(line), " ")
    IN  /\ Len(parts) >= 2
        /\ parts[1] \in {<<"H", "T", "T", "P", "/", "1", ".", "0">>, <<"H", "T", "T", "P", "/", "1", ".", "1">>}
        /\ parts[2] = <<"2", "0", "0">>

\* C16: in tunnel mode the upstream stream is returned for pumping only if the
\* upstream's status line is HTTP/1.x 200; any other status line ends with an
\* error and no stream; on success the remaining response header lines up to
\* and including the blank line have been consumed before the stream is
\* returned.
C16_TunnelOnlyAfter200 ==
    px.proto = "http" =>
        /\ (px.lines # <<>> /\ ~IsStatus200(px.lines[1])) => px.pc \in {"err", "answered"}
        /\ px.pc \in {"ready", "pump"} =>
              /\ Len(px.lines) >= 2
              /\ IsStatus200(px.lines[1])
              /\ px.lines[Len(px.lines)] = CRLF

-----------------------------------------------------------------------------
(* The request a handler emits for a non-CONNECT request:                    *)
(* protocols::http::forward_http_request and the direct arm of               *)
(* server::handle_direct_connection                                          *)

\* what is written to the upstream, piece by piece: the request line, a header
\* line "k: v\r\n", the "\r\n" that ends the head, the body bytes
ReqLine(method, target) == [t |-> "request-line", a |-> method, b |-> target]
Hdr(k, v) == [t |-> "header", a |-> k, b |-> v]
BlankLine == [t |-> "blank", a |-> "", b |-> <<>>]
Body(bytes) == [t |-> "body", a |-> "", b |-> bytes]

\* an iteration order of a HashMap with the keys S
Orders(S) == {o \in [1..Cardinality(S) -> S] : \A i, j \in 1..Cardinality(S) : o[i] = o[j] => i = j}

\* the header lines pushed by a loop over the map in the order given, leaving
\* out the keys in skip
RECURSIVE HeaderLines(_, _, _)
HeaderLines(headers, order, skip) ==
    IF order = <<>> THEN <<>>
    ELSE (IF order[1] \in skip THEN <<>> ELSE <<Hdr(order[1], headers[order[1]])>>)
            \o HeaderLines(headers, Tail(order), skip)

\* a forward_http_request that copies every header
forward_http_request_copy_all(request, target_host, target_port, order) ==
    [head |-> <<ReqLine(request.method, request.target)>>
                 \o HeaderLines(request.headers, order, {})
                 \o (IF "host" \notin DOMAIN request.headers
                     THEN <<Hdr("Host", target_host \o <<":">> \o ToDec(target_port))>> ELSE <<>>)
                 \o (IF request.body # <<>>
                     THEN <<Hdr("Content-Length", ToDec(Len(request.body)))>> ELSE <<>>)
                 \o <<BlankLine>>,
     body |-> IF request.body # <<>> THEN <<Body(request.body)>> ELSE <<>>]

\* forward_http_request: the two writes, modified_request and the body; the
\* caller passes no credentials
forward_http_request(request, target_host, target_port, order) ==
    [head |-> <<ReqLine(request.method, request.target)>>
                 \o HeaderLines(request.headers, order, {"proxy-connection"})
                 \o (IF "host" \notin DOMAIN request.headers
                     THEN <<Hdr("Host", target_host \o <<":">> \o ToDec(target_port))>> ELSE <<>>)
                 \o (IF request.body # <<>>
                     THEN <<Hdr("Content-Length", ToDec(Len(request.body)))>> ELSE <<>>)
                 \o <<BlankLine>>,
     body |-> IF request.body # <<>> THEN <<Body(request.body)>> ELSE <<>>]

\* the header names that start with "proxy-"
ProxyHeaders == {"proxy-connection", "proxy-authorization"}

\* the rewriting of modified_request.target: the path of an http:// or
\* https:// URL, "/" when it has none, and a leading "/" in any case
RewriteTarget(target) ==
    LET stripped ==
            IF StartsWith(target, HttpScheme) \/ StartsWith(target, HttpsScheme)
            THEN LET url_without_scheme ==
                         IF StartsWith(target, HttpScheme) THEN StripPrefix(target, HttpScheme)
                         ELSE StripPrefix(target, HttpsScheme)
                 IN  IF Contains(url_without_scheme, "/")
                     THEN SubSeq(url_without_scheme, FirstIndex(url_without_scheme, "/"),
                                 Len(url_without_scheme))
                     ELSE <<"/">>
            ELSE target
    IN  IF ~StartsWith(stripped, <<"/">>) THEN <<"/">> \o stripped ELSE stripped

\* a direct request that always asks the target to close
direct_request_always_close(request, target_host, port, order) ==
    [head |-> <<ReqLine(request.method, RewriteTarget(request.target))>>
                 \o HeaderLines(request.headers, order, ProxyHeaders)
                 \o (IF "host" \notin DOMAIN request.headers
                     THEN <<Hdr("Host", IF port = 80 THEN target_host
                                        ELSE target_host \o <<":">> \o ToDec(port))>>
                     ELSE <<>>)
                 \o <<Hdr("Connection", <<"c", "l", "o", "s", "e">>)>>
                 \o (IF request.body # <<>>
                     THEN <<Hdr("Content-Length", ToDec(Len(request.body)))>> ELSE <<>>)
                 \o <<BlankLine>>,
     body |-> IF request.body # <<>> THEN <<Body(request.body)>> ELSE <<>>]

\* the direct arm for a non-CONNECT request: http_request and the body
direct_request(request, target_host, port, order) ==
    [head |-> <<ReqLine(request.method, RewriteTarget(request.target))>>
                 \o HeaderLines(request.headers, order, ProxyHeaders)
                 \o (IF "host" \notin DOMAIN request.headers
                     THEN <<Hdr("Host", IF port = 80 THEN target_host
                                        ELSE target_host \o <<":">> \o ToDec(port))>>
                     ELSE <<>>)
                 \o (IF "connection" \notin DOMAIN request.headers
                     THEN <<Hdr("Connection", <<"c", "l", "o", "s", "e">>)>> ELSE <<>>)
                 \o (IF request.body # <<>>
                     THEN <<Hdr("Content-Length", ToDec(Len(request.body)))>> ELSE <<>>)
                 \o <<BlankLine>>,
     body |-> IF request.body # <<>> THEN <<Body(request.body)>> ELSE <<>>]

\* the parsed requests drawn: a target in absolute or origin form, any of four
\* headers, and a body exactly when content-length announces one
FwdTargets ==
    {HttpScheme \o HostAB \o <<"/", "p">>, HttpScheme \o HostAB, <<"/", "p">>,
     HttpsScheme \o HostAB \o <<"/">>}
FwdHeaderValues ==
    [k \in {"host", "connection", "proxy-connection", "accept", "content-length"} |->
        CASE k = "host" -> HostAB \o <<":", "8", "0", "8", "0">>
          [] k = "connection" -> <<"k", "e", "e", "p", "-", "a", "l", "i", "v", "e">>
          [] k = "proxy-connection" -> <<"k", "e", "e", "p", "-", "a", "l", "i", "v", "e">>
          [] k = "accept" -> <<"*", "/", "*">>
          [] k = "content-length" -> <<"2">>]
FwdBody == <<"x", "y">>
FwdRequests ==
    {[method |-> IF "content-length" \in K THEN "POST" ELSE "GET",
      target |-> t,
      headers |-> [k \in K |-> FwdHeaderValues[k]],
      body |-> IF "content-length" \in K THEN FwdBody ELSE <<>>] :
        t \in FwdTargets, K \in SUBSET DOMAIN FwdHeaderValues}

\* one dispatch of a parsed request, by the HTTP upstream or directly
EmitCall(proto, request) ==
    [proto |-> proto, pc |-> "connect", request |-> request,
     target_host |-> extract_host_and_port(request).host,
     port |-> extract_host_and_port(request).port,
     wire |-> <<>>, cout |-> <<>>]

InitRequest ==
    /\ call = NoCall
    /\ ret = NoRet
    /\ px \in {EmitCall(proto, r) : proto \in {"forward", "direct"},
                                    r \in {q \in FwdRequests : extract_host_and_port(q).ok}}
    /\ SysIdle

InEmit(proto, pc) == px.proto = proto /\ px.pc = pc

\* the writes of an emitted request: all succeed, or the head fails, or the
\* head succeeds and the body fails
EmitWrites(emitted, next) ==
    \/ PxSet([pc |-> next, wire |-> px.wire \o emitted.head \o emitted.body])
    \/ PxSet([pc |-> "write_failed"])
    \/ emitted.body # <<>> /\ PxSet([pc |-> "write_failed", wire |-> px.wire \o emitted.head])

\* forward_http_request: TcpStream::connect to the upstream proxy
ForwardConnect ==
    /\ InEmit("forward", "connect")
    /\ PxSet([pc |-> "write"]) \/ PxSet([pc |-> "err"])
    /\ UNCHANGED <<call, ret, sysvars>>

\* forward_http_request: build modified_request and write it and the body
ForwardWrite ==
    /\ InEmit("forward", "write")
    /\ \E order \in Orders(DOMAIN px.request.headers) :
          EmitWrites(forward_http_request(px.request, px.target_host, px.port, order), "ready")
    /\ UNCHANGED <<call, ret, sysvars>>

\* handle_proxy_connection: Ok(proxy_stream) goes to the byte-pump
ForwardCallerOk ==
    /\ InEmit("forward", "ready")
    /\ PxSet([pc |-> "pump"])
    /\ UNCHANGED <<call, ret, sysvars>>

\* handle_proxy_connection: Err(e) is answered with the 500 line
ForwardCallerErr ==
    /\ px.proto = "forward" /\ px.pc \in {"err", "write_failed"}
    /\ PxSet([pc |-> "answered", cout |-> px.cout \o <<HTTP_SERVER_ERROR>>])
    /\ UNCHANGED <<call, ret, sysvars>>

\* handle_direct_connection: TcpStream::connect to the target; on Err the 500
\* line and Ok(())
DirectConnect ==
    /\ InEmit("direct", "connect")
    /\ \/ PxSet([pc |-> "write"])
       \/ PxSet([pc |-> "answered", cout |-> px.cout \o <<HTTP_SERVER_ERROR>>])
    /\ UNCHANGED <<call, ret, sysvars>>

\* handle_direct_connection: build http_request, write it and the body, flush,
\* and go on to the byte-pump; a failed write or flush returns Err
DirectWrite ==
    /\ InEmit("direct", "write")
    /\ \E order \in Orders(DOMAIN px.request.headers) :
          LET emitted == direct_request(px.request, px.target_host, px.port, order)
          IN  \/ EmitWrites(emitted, "pump")
              \/ PxSet([pc |-> "write_failed", wire |-> px.wire \o emitted.head \o emitted.body])
    /\ UNCHANGED <<call, ret, sysvars>>

NextRequest ==
    \/ ForwardConnect
    \/ ForwardWrite
    \/ ForwardCallerOk
    \/ ForwardCallerErr
    \/ DirectConnect
    \/ DirectWrite

SpecRequest == InitRequest /\ [][NextRequest]_vars

\* the header lines of the emitted request named k
Named(k) == {i \in 1..Len(px.wire) : px.wire[i].t = "header" /\ px.wire[i].a = k}

\* the emitted request ends with the blank line followed by exactly the body
EndsWithBody ==
    LET n == Len(px.wire)
    IN  /\ Cardinality({i \in 1..n : px.wire[i] = BlankLine}) = 1
        /\ IF px.request.body = <<>>
           THEN px.wire[n] = BlankLine
           ELSE px.wire[n - 1] = BlankLine /\ px.wire[n] = Body(px.request.body)

\* C17: in forward mode the request sent to the upstream has the client's
\* method and target unchanged, every client header except proxy-connection, a
\* Host header synthesized from the target exactly when the client sent none,
\* Content-Length appended when the body is non-empty, and ends with a blank
\* line followed by exactly the body bytes.
C17_ForwardedRequest ==
    (px.proto = "forward" /\ px.pc \in {"ready", "pump"}) =>
        /\ px.wire[1] = ReqLine(px.request.method, px.request.target)
        /\ \A k \in DOMAIN px.request.headers \ {"proxy-connection"} :
              Cardinality({i \in Named(k) : px.wire[i].b = px.request.headers[k]}) = 1
        /\ Named("proxy-connection") = {}
        /\ Named("Host") # {} <=> "host" \notin DOMAIN px.request.headers
        /\ \A i \in Named("Host") :
              px.wire[i].b = px.target_host \o <<":">> \o ToDec(px.port)
        /\ px.request.body # <<>> =>
              \E i \in Named("Content-Length") : px.wire[i].b = <<"2">>
        /\ EndsWithBody

\* a POST with a proxy-connection header and no host header has been sent to
\* the upstream and is being pumped
C17_Witness ==
    /\ px.proto = "forward" /\ px.pc = "pump"
    /\ DOMAIN px.request.headers = {"proxy-connection", "accept", "content-length"}
    /\ px.request.body = FwdBody
    /\ Len(px.wire) = 7

\* the origin-form of a request target: an absolute-form target without its
\* scheme and authority, "/" when no path is left
OriginForm(target) ==
    IF target[1] = "/" THEN target
    ELSE LET rest == SubSeq(target, FirstIndex(target, ":") + 3, Len(target))
         IN  IF Contains(rest, "/") THEN SubSeq(rest, FirstIndex(rest, "/"), Len(rest))
             ELSE <<"/">>

\* C18: for a non-CONNECT request dispatched Direct the request emitted to the
\* target has its target in origin-form, carries a Host header, carries
\* Connection: close exactly when the client sent no connection header,
\* carries Content-Length when a body is attached and is followed by the body;
\* only then does the byte-pump start.
C18_DirectRequest ==
    (px.proto = "direct" /\ px.pc = "pump") =>
        /\ px.wire[1] = ReqLine(px.request.method, OriginForm(px.request.target))
        /\ Named("host") \cup Named("Host") # {}
        /\ Named("Connection") # {} <=> "connection" \notin DOMAIN px.request.headers
        /\ \A i \in Named("Connection") : px.wire[i].b = <<"c", "l", "o", "s", "e">>
        /\ px.request.body # <<>> =>
              \E i \in Named("Content-Length") : px.wire[i].b = <<"2">>
        /\ EndsWithBody

\* GET http://a.b with a connection header and no host header has been sent to
\* the target as GET / with a synthesized Host and no Connection: close
C18_Witness ==
    /\ px.proto = "direct" /\ px.pc = "pump"
    /\ px.request.target = HttpScheme \o HostAB
    /\ DOMAIN px.request.headers = {"connection"}
    /\ px.wire = <<ReqLine("GET", <<"/">>), Hdr("connection", <<"k", "e", "e", "p", "-", "a", "l", "i", "v", "e">>),
                   Hdr("Host", HostAB), BlankLine>>

-----------------------------------------------------------------------------
(* The bytes of one connection: protocols::http::parse_request's BufReader,  *)
(* the BufReader of protocols::http::forward_to_proxy, and the two           *)
(* tokio::io::copy loops                                                     *)

\* px.csend, px.usend: the bytes the client and the upstream send after their
\* heads; px.csent, px.usent: how many of them have been sent; px.cin, px.uin:
\* the bytes that have arrived on the socket and are not yet read; px.c2u,
\* px.u2c: the buffers of the two copy loops; px.uout, px.cout: the bytes
\* written to the upstream and to the client
ByteCall(route, csend, usend) ==
    [proto |-> "bytes", pc |-> "parse", route |-> route, csend |-> csend, usend |-> usend,
     csent |-> 0, usent |-> 0, cin |-> <<>>, uin |-> <<>>, c2u |-> <<>>, u2c |-> <<>>,
     uout |-> <<>>, cout |-> <<>>, write_failed |-> FALSE]

ClientBytes(n) == [i \in 1..n |-> i]
UpstreamBytes(n) == [i \in 1..n |-> 10 + i]

InitBytes ==
    /\ call = NoCall
    /\ ret = NoRet
    /\ px \in {ByteCall(route, ClientBytes(n), UpstreamBytes(k)) :
                  route \in {"direct", "http"}, n \in 0..MaxBytes, k \in 0..MaxBytes}
    /\ SysIdle

InBytes(pcs) == px.proto = "bytes" /\ px.pc \in pcs

\* the client sends its next byte; it does not wait for an answer
ClientSends ==
    /\ InBytes({"parse", "open", "pump"})
    /\ px.csent < Len(px.csend)
    /\ PxSet([csent |-> px.csent + 1, cin |-> Append(px.cin, px.csend[px.csent + 1])])
    /\ UNCHANGED <<call, ret, sysvars>>

\* the upstream, once connected, sends its next byte
UpstreamSends ==
    /\ InBytes({"open", "pump"})
    /\ px.usent < Len(px.usend)
    /\ PxSet([usent |-> px.usent + 1, uin |-> Append(px.uin, px.usend[px.usent + 1])])
    /\ UNCHANGED <<call, ret, sysvars>>

\* parse_request: the BufReader over the client stream reads what has arrived,
\* the head is taken from its buffer, and the reader is dropped on return with
\* whatever it had read beyond the head
BytesParse ==
    /\ InBytes({"parse"})
    /\ PxSet([pc |-> "open", cin |-> <<>>])
    /\ UNCHANGED <<call, ret, sysvars>>

\* opening the upstream: directly, nothing is read from it; through the HTTP
\* upstream, forward_to_proxy's BufReader reads the response head and is
\* dropped with whatever it had read beyond the blank line
BytesOpen ==
    /\ InBytes({"open"})
    /\ PxSet([pc |-> "pump", uin |-> IF px.route = "http" THEN <<>> ELSE px.uin])
    /\ UNCHANGED <<call, ret, sysvars>>

\* tokio::io::copy, client to upstream: a read into the loop's buffer
CopyClientRead ==
    /\ InBytes({"pump"})
    /\ px.c2u = <<>> /\ px.cin # <<>>
    /\ PxSet([c2u |-> px.cin, cin |-> <<>>])
    /\ UNCHANGED <<call, ret, sysvars>>

\* tokio::io::copy, client to upstream: the write of the buffer, or its failure
CopyUpstreamWrite ==
    /\ InBytes({"pump"})
    /\ px.c2u # <<>>
    /\ \/ PxSet([uout |-> px.uout \o px.c2u, c2u |-> <<>>])
       \/ PxSet([pc |-> "done", write_failed |-> TRUE, c2u |-> <<>>, u2c |-> <<>>])
    /\ UNCHANGED <<call, ret, sysvars>>

\* tokio::io::copy, upstream to client: a read into the loop's buffer
CopyUpstreamRead ==
    /\ InBytes({"pump"})
    /\ px.u2c = <<>> /\ px.uin # <<>>
    /\ PxSet([u2c |-> px.uin, uin |-> <<>>])
    /\ UNCHANGED <<call, ret, sysvars>>

\* tokio::io::copy, upstream to client: the write of the buffer, or its failure
CopyClientWrite ==
    /\ InBytes({"pump"})
    /\ px.u2c # <<>>
    /\ \/ PxSet([cout |-> px.cout \o px.u2c, u2c |-> <<>>])
       \/ PxSet([pc |-> "done", write_failed |-> TRUE, c2u |-> <<>>, u2c |-> <<>>])
    /\ UNCHANGED <<call, ret, sysvars>>

NextBytes ==
    \/ ClientSends
    \/ UpstreamSends
    \/ BytesParse
    \/ BytesOpen
    \/ CopyClientRead
    \/ CopyUpstreamWrite
    \/ CopyUpstreamRead
    \/ CopyClientWrite

SpecBytes == InitBytes /\ [][NextBytes]_vars

\* C19: the parser consumes exactly one request head and the byte-pump loses
\* nothing: in each direction the bytes written to the destination, followed
\* by those read and not yet written and those not yet read, are the bytes the
\* source has sent, in order, unless a write to the opposite side has failed.
C19_NoByteLost ==
    (px.proto = "bytes" /\ ~px.write_failed) =>
        /\ px.uout \o px.c2u \o px.cin = SubSeq(px.csend, 1, px.csent)
        /\ px.cout \o px.u2c \o px.uin = SubSeq(px.usend, 1, px.usent)

-----------------------------------------------------------------------------
(* Shutdown *)

\* the listener and the watcher are tasks of the runtime and are scheduled
\* fairly; the process is not obliged to be asked to stop, and clients,
\* upstreams and the filesystem are not obliged to do anything
FairShutdownSpec ==
    /\ SpecShutdown
    /\ WF_vars(ListenerShutdown)
    /\ WF_vars(WatcherStep \/ WatcherShutdown)

\* C20: after the shutdown token is cancelled the listener eventually stops
\* accepting, no handler is spawned once it has observed the shutdown, and the
\* watcher eventually stops, also when the shutdown arrives in the middle of a
\* reload cycle.
C20_ShutdownStops ==
    /\ shutdown_token ~> (lpc = "stopped" /\ wpc = "stopped")
    /\ [][lpc = "stopped" => (lpc' = "stopped" /\ Len(conn') = Len(conn))]_vars
    /\ [][wpc = "stopped" => wpc' = "stopped"]_vars

\* the shutdown has arrived while the watcher is waiting for the write lock in
\* a reload cycle, and the listener has already stopped
C20_Witness ==
    /\ shutdown_token /\ lpc = "stopped"
    /\ wpc \in {"write1", "write2"}

\* shutdown with the handler tasks scheduled fairly as well
FairShutdownHandlersSpec ==
    /\ FairShutdownSpec
    /\ \A h \in 1..MaxConns : WF_vars(h \in Conns /\ HandlerStep(h))

\* C21: after shutdown is initiated every in-flight handler eventually
\* returns, also one in its byte-pump whose client and upstream never close.
C21_ShutdownEndsHandlers ==
    \A h \in 1..MaxConns :
        (shutdown_token /\ h \in Conns) ~> (h \in Conns /\ conn[h].pc = "done")

-----------------------------------------------------------------------------
(* Concurrent connections: the sockets of the process and the handler tasks
   that own them, on the direct CONNECT path *)

MaxTasks == 2

\* the i-th byte the peer of socket s sends
StreamByte(s, i) == [src |-> s, n |-> i]

\* a TcpStream: what its peer has sent and the proxy has not read yet (rx),
\* and what the proxy has written to it (tx)
NewSocket(peer) == [peer |-> peer, sent |-> 0, rx |-> <<>>, tx |-> <<>>]

\* the task tokio::spawn creates: client_socket is moved into it
NewTask(client) == [pc |-> "connect", client |-> client, upstream |-> 0]

InitStreams ==
    /\ call = NoCall
    /\ ret = NoRet
    /\ px = [proto |-> "streams", sockets |-> <<>>, tasks |-> <<>>]
    /\ SysIdle

InStreams == px.proto = "streams"

\* listener.accept() returns a new socket and the handler is spawned with it
StreamsAccept ==
    /\ InStreams
    /\ Len(px.tasks) < MaxTasks
    /\ PxSet([sockets |-> Append(px.sockets, NewSocket("client")),
              tasks |-> Append(px.tasks, NewTask(Len(px.sockets) + 1))])
    /\ UNCHANGED <<call, ret, sysvars>>

\* an upstream socket kept and handed to every later handler
StreamsConnectPooled(h) ==
    LET pooled == {s \in 1..Len(px.sockets) : px.sockets[s].peer = "upstream"}
        target == IF pooled = {} THEN Len(px.sockets) + 1 ELSE CHOOSE s \in pooled : TRUE
    IN  /\ InStreams
        /\ px.tasks[h].pc = "connect"
        /\ PxSet([sockets |-> IF pooled = {} THEN Append(px.sockets, NewSocket("upstream"))
                                              ELSE px.sockets,
                  tasks |-> [px.tasks EXCEPT ![h] = [pc |-> "pump", client |-> @.client,
                                                     upstream |-> target]]])
        /\ UNCHANGED <<call, ret, sysvars>>

\* TcpStream::connect in the handler: a new socket, held by this task only
StreamsConnect(h) ==
    /\ InStreams
    /\ px.tasks[h].pc = "connect"
    /\ PxSet([sockets |-> Append(px.sockets, NewSocket("upstream")),
              tasks |-> [px.tasks EXCEPT ![h] = [pc |-> "pump", client |-> @.client,
                                                 upstream |-> Len(px.sockets) + 1]]])
    /\ UNCHANGED <<call, ret, sysvars>>

\* the peer of a socket sends its next byte
StreamsPeerSends(s) ==
    /\ InStreams
    /\ px.sockets[s].sent < MaxData
    /\ PxSet([sockets |-> [px.sockets EXCEPT
                  ![s] = [peer |-> @.peer, sent |-> @.sent + 1, tx |-> @.tx,
                          rx |-> Append(@.rx, StreamByte(s, @.sent + 1))]]])
    /\ UNCHANGED <<call, ret, sysvars>>

\* one round of tokio::io::copy from the socket `from` to the socket `to`
StreamsCopy(from, to) ==
    /\ px.sockets[from].rx # <<>>
    /\ PxSet([sockets |-> [px.sockets EXCEPT
                  ![from] = [peer |-> @.peer, sent |-> @.sent, tx |-> @.tx, rx |-> <<>>],
                  ![to] = [peer |-> @.peer, sent |-> @.sent, rx |-> @.rx,
                           tx |-> @.tx \o px.sockets[from].rx]]])
    /\ UNCHANGED <<call, ret, sysvars>>

\* copy(&mut ri, &mut wo): the task's client to the task's upstream
StreamsCopyToUpstream(h) ==
    /\ InStreams
    /\ px.tasks[h].pc = "pump"
    /\ StreamsCopy(px.tasks[h].client, px.tasks[h].upstream)

\* copy(&mut ro, &mut wi): the task's upstream to the task's client
StreamsCopyToClient(h) ==
    /\ InStreams
    /\ px.tasks[h].pc = "pump"
    /\ StreamsCopy(px.tasks[h].upstream, px.tasks[h].client)

NextStreams ==
    \/ StreamsAccept
    \/ \E h \in 1..Len(px.tasks) : StreamsConnect(h)
    \/ \E s \in 1..Len(px.sockets) : StreamsPeerSends(s)
    \/ \E h \in 1..Len(px.tasks) : StreamsCopyToUpstream(h)
    \/ \E h \in 1..Len(px.tasks) : StreamsCopyToClient(h)

SpecStreams == InitStreams /\ [][NextStreams]_vars

\* the first k bytes the peer of socket s sends
StreamSent(s, k) == [i \in 1..k |-> StreamByte(s, i)]

Pumping(h) == h \in 1..Len(px.tasks) /\ px.tasks[h].pc = "pump"

-----------------------------------------------------------------------------
(* Letter case of the target host *)

\* str::to_lowercase on the letters of the hosts
LowerChar(ch) ==
    CASE ch = "A" -> "a"
      [] ch = "B" -> "b"
      [] ch = "C" -> "c"
      [] ch = "H" -> "h"
      [] ch = "L" -> "l"
      [] OTHER -> ch

to_lowercase(s) == [i \in 1..Len(s) |-> LowerChar(s[i])]

\* C23: the profile a handler selects is the one the policy gives for the
\* lowercased target host, so hosts differing only in letter case select the
\* same profile.
C23_LookupIgnoresCase ==
    \A h \in Conns :
        Resolved(conn[h]) =>
            conn[h].profile_name = select_profile(config, to_lowercase(conn[h].target_host))

-----------------------------------------------------------------------------
(* The empty host *)

OnlyStars(p) == \A i \in 1..Len(p) : p[i] = "*"

\* C24: the empty host is matched by the pattern "" and by the pattern "*",
\* and by no other pattern.
C24_EmptyHost ==
    MatchDone /\ call.host = <<>> =>
        (ret.val <=> call.pattern \in {<<>>, <<"*">>})

\* C24 as the code has it: the empty host is matched exactly by the patterns
\* made of "*" alone (the empty pattern among them) and by the pattern "*.".
C24_EmptyHostAmended ==
    MatchDone /\ call.host = <<>> =>
        (ret.val <=> (OnlyStars(call.pattern) \/ call.pattern = StarDot))

\* the empty host has been matched against "**" and against "*.a"
C24_Witness ==
    /\ MatchDone
    /\ call.host = <<>>
    /\ \/ call.pattern = <<"*", "*">> /\ ret.val
       \/ call.pattern = <<"*", ".", "a">> /\ ~ret.val

-----------------------------------------------------------------------------
(* The read guard and the handler's suspension points *)

\* the handler is suspended in, or on its way to, an awaited socket
\* operation: request parsing, the 400 of handle_connect, the 500 of the
\* not-found arm, the upstream connect and handshake, the byte-pump
AtSocketAwait(c) == c.pc \in {"parse", "extract", "not_found", "dispatch", "pump"}

\* C25: no handler holds the policy read lease while a socket read, write,
\* connect or byte-pump step is awaited, the missing-profile path included.
C25_NoLeaseAcrossIo ==
    \A h \in Conns : h \in readers => ~AtSocketAwait(conn[h])

-----------------------------------------------------------------------------
(* The lookup under the read guard, one action per read of the cell, against
   the watcher's replacement *)

\* a policy whose names A and S are defined the other way round
PolicySwapped ==
    Config("S", <<>>, [n \in {"direct", "A", "S"} |->
                          CASE n = "direct" -> Direct
                            [] n = "A" -> Socks5(UpstreamHost, 1080)
                            [] n = "S" -> Http(UpstreamHost, 3128)])

InitSwap ==
    /\ call = NoCall
    /\ ret = NoRet
    /\ px = NoExchange
    /\ config = PolicySwapped
    /\ readers = {}
    /\ wwait = FALSE
    /\ file = PolicySwapped
    /\ rx = <<>>
    /\ wpc = "select"
    /\ new_config = None
    /\ wlog = "none"
    /\ connections_token = 0
    /\ cancelled = {}
    /\ shutdown_token = FALSE
    /\ lpc = "listening"
    /\ conn = <<>>
    /\ nevents = 0
    /\ hist = <<PolicySwapped>>

\* select_profile(&config_guard, &target_host)
LookupSelect(h) ==
    /\ conn[h].pc = "locked"
    /\ Set(h, [pc |-> "selected",
               profile_name |-> select_profile(ConfigRead, conn[h].target_host)])
    /\ UNCHANGED <<harness, cellvars, watchvars, tokvars, listvars>>

\* config_guard.profiles.get(&profile_name): Some is cloned and the guard
\* dropped with the block; None goes to the 500 with the guard still held
LookupGet(h) ==
    /\ conn[h].pc = "selected"
    /\ IF conn[h].profile_name \in DOMAIN ConfigRead.profiles
       THEN /\ Set(h, [pc |-> "dispatch",
                       proxy_config |-> ConfigRead.profiles[conn[h].profile_name]])
            /\ readers' = readers \ {h}
       ELSE /\ Set(h, [pc |-> "not_found"])
            /\ UNCHANGED readers
    /\ UNCHANGED <<harness, config, wwait, hist, watchvars, tokvars, listvars>>

NextSwap ==
    \/ Accept
    \/ ModifyFile
    \/ OtherEvent
    \/ WatcherStep
    \/ \E h \in Conns : TaskStart(h)
    \/ \E h \in Conns : CheckCancelled(h)
    \/ \E h \in Conns : ParseRequest(h)
    \/ \E h \in Conns : ExtractTarget(h)
    \/ \E h \in Conns : ReadLock(h)
    \/ \E h \in Conns : LookupSelect(h)
    \/ \E h \in Conns : LookupGet(h)
    \/ \E h \in Conns : NotFoundWrite(h)
    \/ \E h \in Conns : Dispatch(h)
    \/ \E h \in Conns : ClientEof(h) \/ UpstreamEof(h)
    \/ \E h \in Conns : PumpDone(h)

SpecSwap == InitSwap /\ [][NextSwap]_vars

\* C26: a handler's lookup takes the selected profile name and that name's
\* definition from one version of the policy, under every interleaving with
\* the watcher's replacement.
C26_LookupFromOneVersion ==
    \A h \in Conns :
        Resolved(conn[h]) =>
            \E v \in 1..Len(hist) :
                /\ conn[h].profile_name = select_profile(hist[v], conn[h].target_host)
                /\ ResolvedTo(conn[h]) = ProfileFor(hist[v], conn[h].target_host)

\* the watcher's write is queued behind a handler that has selected the name
\* from the pre-swap policy and has not fetched the definition yet
C26_Witness ==
    \E h \in Conns :
        /\ conn[h].pc = "selected" /\ conn[h].profile_name = "S"
        /\ wwait /\ new_config = PolicyA

-----------------------------------------------------------------------------
(* The reload cycle *)

\* the watcher is between its first request for the write lock and the end
\* of the cycle
WritePhase == wpc \in {"write1", "sleep500", "write2"}

\* the token of this cycle has been replaced: the installed token is not
\* cancelled, its predecessor is, and there has been a replacement for every
\* policy installed so far and one more for this cycle
TokenReplaced ==
    /\ connections_token \notin cancelled
    /\ connections_token - 1 \in cancelled
    /\ connections_token >= Len(hist)

\* C27: in a reload cycle whose parse succeeded the epoch token is cancelled
\* and a fresh one installed before the first attempt to replace the policy;
\* there are at most two attempts, the second after the first has timed out;
\* and when both time out the cycle ends with the cell holding the previous
\* policy and the token replaced.
C27_ReloadCycle ==
    /\ [](WritePhase => TokenReplaced /\ new_config # None)
    /\ [][/\ (wpc' = "write1" /\ wpc # "write1") => wpc = "sleep100"
          /\ (wpc' = "sleep500" /\ wpc # "sleep500") =>
                 wpc = "write1" /\ wlog' = "write_timeout" /\ config' = config
          /\ (wpc' = "write2" /\ wpc # "write2") => wpc = "sleep500"
          /\ (wpc = "write2" /\ wpc' # "write2") =>
                 /\ wpc' = "select"
                 /\ wlog' = "write_timeout_second" =>
                        /\ config' = config /\ hist' = hist
                        /\ connections_token' = connections_token
                        /\ cancelled' = cancelled]_vars

\* both attempts have timed out: the cell holds the startup policy and the
\* token has been replaced
C27_Witness ==
    /\ wlog = "write_timeout_second" /\ wpc = "select"
    /\ config = PolicyDirect /\ hist = <<PolicyDirect>>
    /\ connections_token = 1 /\ cancelled = {0}

-----------------------------------------------------------------------------
(* The end of the byte-pump *)

\* C28: the byte-pump ends once either side has closed: after the EOF of one
\* copy direction the handler returns without waiting for the other peer to
\* close as well.
C28_PumpEndsOnEitherClose ==
    \A h \in 1..MaxConns :
        (h \in Conns /\ conn[h].pc = "pump" /\ (conn[h].c_eof \/ conn[h].u_eof))
            ~> (h \in Conns /\ conn[h].pc = "done")

-----------------------------------------------------------------------------
(* Termination of the SOCKS5 handshake *)

\* the steps that do not wait for the upstream to send: the connect and the
\* writes complete or fail, an armed timeout expires, the caller goes on; the
\* upstream is not obliged to send anything
FairSocksSpec ==
    /\ SpecSocks
    /\ WF_vars(SocksDial)
    /\ WF_vars(SocksGreet)
    /\ WF_vars(SocksRequest)
    /\ WF_vars(SocksReadTimeout)
    /\ WF_vars(SocksCallerOk)
    /\ WF_vars(SocksCallerErr)

\* C29: once the upstream is connected forward_to_proxy terminates, with the
\* stream ready or with an error, even if the upstream never sends a byte.
C29_SocksTerminates ==
    InSocks("greet") ~> (px.pc \in {"ready", "pump", "err", "answered"})

-----------------------------------------------------------------------------
(* The SOCKS5 reply as a byte stream: what forward_to_proxy consumes of the
   upstream's bytes and what it leaves for the byte-pump *)

\* the bytes of a bound address, and of what the target sends behind the reply
AddrBytes(n) == [i \in 1..n |-> 7]
Payload(k) == [i \in 1..k |-> 100 + i]

\* the length of the second read of a DOMAIN address, without the port
DomainRestNoPort(len) == len

\* vec![0u8; len[0] as usize + 2]
DomainRest(len) == len + 2

BoundAddr(atyp, len) ==
    CASE atyp = IPV4_TYPE -> AddrBytes(6)
      [] atyp = IPV6_TYPE -> AddrBytes(18)
      [] atyp = DOMAIN_TYPE -> <<len>> \o AddrBytes(len + 2)

\* everything a succeeding upstream sends: 05 00, the reply, the tunnel's data
ReplyStream(atyp, len, k) ==
    <<SOCKS_VERSION, NO_AUTHENTICATION>>
        \o <<SOCKS_VERSION, SUCCESS_REPLY, 0, atyp>> \o BoundAddr(atyp, len) \o Payload(k)

ReplyCall(usend) ==
    [proto |-> "socks5 reply", pc |-> "greet_reply", usend |-> usend, arrived |-> 0,
     upos |-> 0, atyp |-> 0, dlen |-> 0, cout |-> <<>>]

InitReply ==
    /\ call = NoCall
    /\ ret = NoRet
    /\ px \in {ReplyCall(ReplyStream(atyp, len, k)) :
                  atyp \in {IPV4_TYPE, DOMAIN_TYPE, IPV6_TYPE}, len \in BoundDomainLens,
                  k \in 0..MaxBytes}
    /\ SysIdle

InReply(pc) == px.proto = "socks5 reply" /\ px.pc = pc

\* the next byte of the upstream reaches the socket
ReplyArrives ==
    /\ px.proto = "socks5 reply"
    /\ px.arrived < Len(px.usend)
    /\ PxSet([arrived |-> px.arrived + 1])
    /\ UNCHANGED <<call, ret, sysvars>>

\* read_exact on the TcpStream itself: it completes when n bytes have arrived
\* and takes those n bytes and no more
ReadExactReady(n) == px.arrived - px.upos >= n
ReadExact(n) == SubSeq(px.usend, px.upos + 1, px.upos + n)

ReplyGreetReply ==
    /\ InReply("greet_reply")
    /\ ReadExactReady(2)
    /\ LET response == ReadExact(2)
       IN  PxSet([pc |-> IF response[1] # SOCKS_VERSION \/ response[2] # NO_AUTHENTICATION
                         THEN "err" ELSE "reply_head",
                  upos |-> px.upos + 2])
    /\ UNCHANGED <<call, ret, sysvars>>

ReplyHead ==
    /\ InReply("reply_head")
    /\ ReadExactReady(4)
    /\ LET response_header == ReadExact(4)
       IN  PxSet([pc |-> IF response_header[2] # SUCCESS_REPLY THEN "err" ELSE "reply_addr",
                  atyp |-> response_header[4], upos |-> px.upos + 4])
    /\ UNCHANGED <<call, ret, sysvars>>

\* the IPV4_TYPE and IPV6_TYPE arms: one read of 6 or of 18 bytes
ReplyAddrFixed ==
    /\ InReply("reply_addr")
    /\ px.atyp \in {IPV4_TYPE, IPV6_TYPE}
    /\ LET n == IF px.atyp = IPV4_TYPE THEN 6 ELSE 18
       IN  ReadExactReady(n) /\ PxSet([pc |-> "ready", upos |-> px.upos + n])
    /\ UNCHANGED <<call, ret, sysvars>>

\* the DOMAIN_TYPE arm: the length byte
ReplyAddrLen ==
    /\ InReply("reply_addr")
    /\ px.atyp = DOMAIN_TYPE
    /\ ReadExactReady(1)
    /\ PxSet([pc |-> "reply_domain", dlen |-> ReadExact(1)[1], upos |-> px.upos + 1])
    /\ UNCHANGED <<call, ret, sysvars>>

\* the DOMAIN_TYPE arm: the domain and the port
ReplyAddrDomain ==
    /\ InReply("reply_domain")
    /\ ReadExactReady(DomainRest(px.dlen))
    /\ PxSet([pc |-> "ready", upos |-> px.upos + DomainRest(px.dlen)])
    /\ UNCHANGED <<call, ret, sysvars>>

\* a read fails, or its timeout expires where it has one
ReplyReadFails ==
    /\ px.proto = "socks5 reply"
    /\ px.pc \in {"greet_reply", "reply_head", "reply_addr", "reply_domain"}
    /\ PxSet([pc |-> "err"])
    /\ UNCHANGED <<call, ret, sysvars>>

\* Ok(proxy): the caller splits the stream and starts the copies
ReplyCallerOk ==
    /\ InReply("ready")
    /\ PxSet([pc |-> "pump"])
    /\ UNCHANGED <<call, ret, sysvars>>

\* copy(&mut pi, &mut co): what has arrived is read and written to the client
ReplyCopy ==
    /\ InReply("pump")
    /\ ReadExactReady(1)
    /\ PxSet([cout |-> px.cout \o ReadExact(px.arrived - px.upos), upos |-> px.arrived])
    /\ UNCHANGED <<call, ret, sysvars>>

NextReply ==
    \/ ReplyArrives
    \/ ReplyGreetReply
    \/ ReplyHead
    \/ ReplyAddrFixed
    \/ ReplyAddrLen
    \/ ReplyAddrDomain
    \/ ReplyReadFails
    \/ ReplyCallerOk
    \/ ReplyCopy

SpecReply == InitReply /\ [][NextReply]_vars

\* the length of the reply in the stream, by its ATYP byte: the answer to the
\* greeting, the head, and 6, 18 or 1 + length + 2 bytes of address
ReplyLen ==
    LET atyp == px.usend[6]
    IN  6 + (CASE atyp = 1 -> 6
               [] atyp = 4 -> 18
               [] atyp = 3 -> 1 + px.usend[7] + 2)

\* C30: on a successful reply exactly the bound address of the reply's ATYP is
\* consumed, so what the pump delivers to the client is what follows the
\* reply in the upstream's stream, from its first byte, nothing skipped and
\* nothing of the reply leaked.
C30_PumpStartsBehindReply ==
    (px.proto = "socks5 reply" /\ px.pc \in {"ready", "pump"}) =>
        /\ px.upos = ReplyLen + Len(px.cout)
        /\ px.cout = SubSeq(px.usend, ReplyLen + 1, ReplyLen + Len(px.cout))

\* the client has received the first byte behind a DOMAIN-typed reply
C30_Witness ==
    /\ px.proto = "socks5 reply" /\ px.pc = "pump"
    /\ px.atyp = DOMAIN_TYPE /\ px.dlen = 2
    /\ px.cout # <<>> /\ px.cout[1] = 101

-----------------------------------------------------------------------------
(* protocols::http::parse_request, read by read *)

\* str::split_whitespace: the maximal runs of non-whitespace characters
RECURSIVE SplitWhitespace(_)
SplitWhitespace(str) ==
    LET t == TrimStart(str)
        ends == {i \in 1..Len(t) : t[i] \in Whitespace}
        n == IF ends = {} THEN Len(t) ELSE (CHOOSE i \in ends : \A j \in ends : i <= j) - 1
    IN  IF t = <<>> THEN <<>>
        ELSE <<SubSeq(t, 1, n)>> \o SplitWhitespace(SubSeq(t, n + 1, Len(t)))

\* str::split_once(':')
SplitOnce(str, c) ==
    IF Contains(str, c)
    THEN Some(<<SubSeq(str, 1, FirstIndex(str, c) - 1),
                SubSeq(str, FirstIndex(str, c) + 1, Len(str))>>)
    ELSE None

\* value.parse().unwrap_or_else(|_| 0) into a usize
ContentLengthOf(value) ==
    LET d == IF value # <<>> /\ value[1] = "+" THEN Tail(value) ELSE value
    IN  IF d # <<>> /\ (\A i \in 1..Len(d) : IsDigit(d[i])) THEN DecVal(d) ELSE 0

\* a request line taken for good as soon as it has three tokens
RequestLineAtLeast(parts) == Len(parts) >= 3

\* parts.len() != 3 is "Invalid HTTP request"
RequestLineOk(parts) == Len(parts) = 3

\* HashMap::insert
MapInsert(map, key, value) ==
    [k \in DOMAIN map \cup {key} |-> IF k = key THEN value ELSE map[k]]

HttpVersion == <<"H", "T", "T", "P", "/", "1", ".", "1">>
Get == <<"G", "E", "T">>
PathP == <<"/", "p">>
Sp == <<" ">>

\* request lines of three tokens, and lines of two, four and no tokens
ThreeTokenLines ==
    {Get \o Sp \o PathP \o Sp \o HttpVersion \o CRLF,
     Get \o Sp \o Sp \o PathP \o Sp \o HttpVersion \o CRLF}
OtherRequestLines ==
    {Get \o Sp \o PathP \o CRLF,
     Get \o Sp \o PathP \o Sp \o HttpVersion \o Sp \o <<"x">> \o CRLF,
     CRLF}

HostName == <<"h", "o", "s", "t">>
ContentLengthName == <<"c", "o", "n", "t", "e", "n", "t", "-", "l", "e", "n", "g", "t", "h">>
ColonSp == <<":", " ">>

\* header lines: a Host, a second Host, a Host in capitals without the space,
\* a Content-Length of 1, a Content-Length that is no number, a line with no
\* colon
ClientHeaderLines ==
    {HostName \o ColonSp \o <<"a">> \o CRLF,
     HostName \o ColonSp \o <<"b">> \o CRLF,
     <<"H", "o", "s", "t", ":", "a">> \o CRLF,
     ContentLengthName \o ColonSp \o <<"1">> \o CRLF,
     ContentLengthName \o ColonSp \o <<"x">> \o CRLF,
     <<"n", "o">> \o CRLF}

ParseCall ==
    [proto |-> "parse", pc |-> "first_line", lines |-> <<>>, parts |-> <<>>,
     headers |-> <<>>, content_length |-> 0, body |-> <<>>, fault |-> "none",
     err |-> "none"]

InitParse ==
    /\ call = NoCall
    /\ ret = NoRet
    /\ px = ParseCall
    /\ SysIdle

InParse(pc) == px.proto = "parse" /\ px.pc = pc

\* what ends a read other than its data: the 30 s bound, or an I/O error
ReadFaults == {"timeout", "io"}
FaultErr(fault) == IF fault = "timeout" THEN "TimedOut" ELSE "Io"

\* the first read_line and the split of the request line
ParseFirstLine ==
    /\ InParse("first_line")
    /\ \/ \E first_line \in ThreeTokenLines \cup OtherRequestLines \cup {ReadLineEof} :
             LET parts == SplitWhitespace(first_line)
             IN  PxSet([pc |-> IF RequestLineOk(parts) THEN "headers" ELSE "failed",
                        err |-> IF RequestLineOk(parts) THEN "none" ELSE "InvalidData",
                        lines |-> <<first_line>>, parts |-> parts])
       \/ \E fault \in ReadFaults :
             PxSet([pc |-> "failed", fault |-> fault, err |-> FaultErr(fault)])
    /\ UNCHANGED <<call, ret, sysvars>>

\* one turn of the header loop
ParseHeaderLine ==
    /\ InParse("headers")
    /\ \/ \E line \in {l \in ClientHeaderLines : Len(px.lines) <= MaxHeaderLines}
                         \cup {CRLF, ReadLineEof} :
             LET kv == SplitOnce(line, ":")
                 key == to_lowercase(Trim(kv.v[1]))
                 value == Trim(kv.v[2])
             IN  IF Trim(line) = <<>>
                 THEN PxSet([pc |-> "body", lines |-> Append(px.lines, line)])
                 ELSE IF kv.some
                 THEN PxSet([lines |-> Append(px.lines, line),
                             headers |-> MapInsert(px.headers, key, value),
                             content_length |-> IF key = ContentLengthName
                                                THEN ContentLengthOf(value)
                                                ELSE px.content_length])
                 ELSE PxSet([lines |-> Append(px.lines, line)])
       \/ \E fault \in ReadFaults :
             PxSet([pc |-> "failed", fault |-> fault, err |-> FaultErr(fault)])
    /\ UNCHANGED <<call, ret, sysvars>>

\* read_exact of content_length bytes when content_length > 0, and Ok(..)
ParseBody ==
    /\ InParse("body")
    /\ IF px.content_length > 0
       THEN \/ PxSet([pc |-> "ok", body |-> [i \in 1..px.content_length |-> "x"]])
            \/ \E fault \in ReadFaults :
                  PxSet([pc |-> "failed", fault |-> fault, err |-> FaultErr(fault)])
       ELSE PxSet([pc |-> "ok"])
    /\ UNCHANGED <<call, ret, sysvars>>

NextParse ==
    \/ ParseFirstLine
    \/ ParseHeaderLine
    \/ ParseBody

SpecParse == InitParse /\ [][NextParse]_vars

FirstLineRead == px.lines # <<>>
HasContentLength == ContentLengthName \in DOMAIN px.headers

\* C31: parse_request fails with InvalidData exactly when the request line
\* it read has not three tokens, with TimedOut exactly when a read exceeded
\* its bound, with Io exactly when a read failed, and succeeds otherwise; a
\* Content-Length that is no number counts as zero and no body is read.
C31_ParseClassifies ==
    px.proto = "parse" =>
        /\ px.err = "InvalidData" <=> (FirstLineRead /\ px.lines[1] \notin ThreeTokenLines)
        /\ px.err = "TimedOut" <=> px.fault = "timeout"
        /\ px.err = "Io" <=> px.fault = "io"
        /\ px.pc = "failed" <=> px.err # "none"
        /\ px.pc = "ok" => FirstLineRead /\ Len(px.parts) = 3
        /\ (HasContentLength /\ px.headers[ContentLengthName] = <<"x">>) =>
              px.content_length = 0 /\ px.body = <<>>
        /\ (HasContentLength /\ px.headers[ContentLengthName] = <<"1">>) =>
              px.content_length = 1 /\ (px.pc = "ok" => Len(px.body) = 1)

\* a request with a Content-Length that is no number has been parsed, and
\* no body was read
C31_Witness ==
    /\ px.proto = "parse" /\ px.pc = "ok"
    /\ HasContentLength /\ px.headers[ContentLengthName] = <<"x">>
    /\ px.body = <<>>

RECURSIVE SumLen(_)
SumLen(seqs) == IF seqs = <<>> THEN 0 ELSE Len(seqs[1]) + SumLen(Tail(seqs))

RECURSIVE HeadersLen(_, _)
HeadersLen(map, keys) ==
    IF keys = {} THEN 0
    ELSE LET k == CHOOSE x \in keys : TRUE
         IN  Len(k) + Len(ColonSp) + Len(map[k]) + Len(CRLF) + HeadersLen(map, keys \ {k})

\* the length of "method target HTTP/1.1", the header lines "name: value",
\* the blank line and the body
SerializedLen ==
    Len(px.parts[1]) + 1 + Len(px.parts[2]) + 1 + Len(HttpVersion) + Len(CRLF)
        + HeadersLen(px.headers, DOMAIN px.headers) + Len(CRLF) + Len(px.body)

\* C32: a parsed request head, written out again from its method, target,
\* headers and body, has the length of what was consumed from the client.
C32_LengthPreserved ==
    (px.proto = "parse" /\ px.pc = "ok") =>
        SerializedLen = SumLen(px.lines) + Len(px.body)

-----------------------------------------------------------------------------
(* A burst of filesystem events, with no client connected *)

MaxBurst == 3

\* the watcher sleeps in its debounce window or reads in its idle-drain
InWindow == wpc \in {"debounce", "drain"}

\* an event is reported while the watcher is idle with nothing queued (the
\* burst begins) or during the window of the cycle in progress
BurstArrives == nevents < MaxBurst /\ ((wpc = "select" /\ rx = <<>>) \/ InWindow)

BurstModify ==
    /\ BurstArrives
    /\ \E content \in FileContents : file' = content
    /\ rx' = Append(rx, "modify")
    /\ nevents' = nevents + 1
    /\ UNCHANGED <<harness, cellvars, wpc, new_config, wlog, tokvars, listvars, conn>>

BurstOther ==
    /\ BurstArrives
    /\ rx' = Append(rx, "other")
    /\ nevents' = nevents + 1
    /\ UNCHANGED <<harness, cellvars, file, wpc, new_config, wlog, tokvars, listvars, conn>>

\* with no handler there is no read guard, and the first write is granted
NextBurst ==
    \/ BurstModify
    \/ BurstOther
    \/ WatcherRecv
    \/ WatcherDebounce
    \/ WatcherDrain
    \/ WatcherLoad
    \/ WatcherCancel
    \/ WatcherSleep100
    \/ WatcherWrite1Granted

SpecBurst == Init /\ [][NextBurst]_vars

\* the watcher has left the window of this cycle and not yet ended the cycle
AfterWindow == wpc \in {"load", "cancel", "sleep100", "write1", "sleep500", "write2"}

\* C33: an event that is no modify event starts no cycle and leaves policy
\* and token alone, and every modify event that arrived during the debounce
\* window and the idle-drain has been absorbed when the file is parsed: none
\* is left to start a second cycle.
C33_BurstAbsorbed ==
    /\ [][(wpc = "select" /\ rx # <<>> /\ rx[1] = "other" /\ rx' # rx /\ Len(rx') < Len(rx)) =>
             (wpc' = "select" /\ config' = config
                /\ connections_token' = connections_token /\ cancelled' = cancelled)]_vars
    /\ [](AfterWindow => \A i \in 1..Len(rx) : rx[i] # "modify")

-----------------------------------------------------------------------------
(* The epoch-token mutex and the write guard, one action per statement of
   their critical sections *)

Unlocked == [who |-> "none", id |-> 0]
HeldByWatcher == [who |-> "watcher", id |-> 0]
HeldByTask(h) == [who |-> "task", id |-> h]

InitEpoch ==
    /\ call = NoCall
    /\ ret = NoRet
    /\ px = [proto |-> "epoch", mutex |-> Unlocked, wguard |-> FALSE]
    /\ config = PolicyDirect
    /\ readers = {}
    /\ wwait = FALSE
    /\ file = PolicyDirect
    /\ rx = <<>>
    /\ wpc = "select"
    /\ new_config = None
    /\ wlog = "none"
    /\ connections_token = 0
    /\ cancelled = {}
    /\ shutdown_token = FALSE
    /\ lpc = "listening"
    /\ conn = <<>>
    /\ nevents = 0
    /\ hist = <<PolicyDirect>>

InEpoch == px.proto = "epoch"

\* connections_token.lock()
EpochWatcherLock ==
    /\ InEpoch
    /\ wpc = "cancel"
    /\ px.mutex = Unlocked
    /\ PxSet([mutex |-> HeldByWatcher])
    /\ wpc' = "token_cancel"
    /\ UNCHANGED <<call, ret, cellvars, file, rx, new_config, wlog, nevents, tokvars,
                   listvars, conn>>

\* token_guard.cancel()
EpochWatcherCancel ==
    /\ InEpoch
    /\ wpc = "token_cancel"
    /\ cancelled' = cancelled \cup {connections_token}
    /\ wpc' = "token_replace"
    /\ UNCHANGED <<harness, cellvars, file, rx, new_config, wlog, nevents,
                   connections_token, listvars, conn>>

\* *token_guard = CancellationToken::new()
EpochWatcherReplace ==
    /\ InEpoch
    /\ wpc = "token_replace"
    /\ connections_token' = connections_token + 1
    /\ wpc' = "token_unlock"
    /\ UNCHANGED <<harness, cellvars, file, rx, new_config, wlog, nevents, cancelled,
                   listvars, conn>>

\* a guard that lives on into the sleep
EpochWatcherUnlockLate ==
    /\ InEpoch
    /\ wpc = "token_unlock"
    /\ wpc' = "sleep100"
    /\ UNCHANGED <<harness, cellvars, file, rx, new_config, wlog, nevents, tokvars,
                   listvars, conn>>

\* the end of the scope: the MutexGuard is dropped, then the sleep is awaited
EpochWatcherUnlock ==
    /\ InEpoch
    /\ wpc = "token_unlock"
    /\ PxSet([mutex |-> Unlocked])
    /\ wpc' = "sleep100"
    /\ UNCHANGED <<call, ret, cellvars, file, rx, new_config, wlog, nevents, tokvars,
                   listvars, conn>>

\* a task that reads the holder without taking the mutex
EpochTaskLockFree(h) ==
    /\ InEpoch
    /\ conn[h].pc = "spawned"
    /\ Set(h, [pc |-> "token_clone"])
    /\ UNCHANGED <<harness, cellvars, watchvars, tokvars, listvars>>

\* token.lock().unwrap() in the spawned task
EpochTaskLock(h) ==
    /\ InEpoch
    /\ conn[h].pc = "spawned"
    /\ px.mutex = Unlocked
    /\ PxSet([mutex |-> HeldByTask(h)])
    /\ Set(h, [pc |-> "token_clone"])
    /\ UNCHANGED <<call, ret, cellvars, watchvars, tokvars, listvars>>

\* .clone() and the end of the block: the guard is dropped before
\* handle_client is awaited
EpochTaskClone(h) ==
    /\ InEpoch
    /\ conn[h].pc = "token_clone"
    /\ PxSet([mutex |-> IF px.mutex = HeldByTask(h) THEN Unlocked ELSE px.mutex])
    /\ Set(h, [pc |-> "check", token |-> connections_token])
    /\ UNCHANGED <<call, ret, cellvars, watchvars, tokvars, listvars>>

\* timeout(.., config.write()) resolves to Ok(guard)
EpochWriteAcquire(at) ==
    /\ InEpoch
    /\ wpc = at
    /\ readers = {}
    /\ PxSet([wguard |-> TRUE])
    /\ wwait' = TRUE
    /\ wpc' = IF at = "write1" THEN "assign1" ELSE "assign2"
    /\ UNCHANGED <<call, ret, config, readers, hist, file, rx, new_config, wlog, nevents,
                   tokvars, listvars, conn>>

\* *guard = new_config, and the guard is dropped at the end of the arm
EpochWriteAssign(at, log) ==
    /\ InEpoch
    /\ wpc = at
    /\ px.wguard
    /\ PxSet([wguard |-> FALSE])
    /\ config' = new_config
    /\ hist' = Append(hist, new_config)
    /\ wwait' = FALSE
    /\ new_config' = None
    /\ wlog' = log
    /\ wpc' = "select"
    /\ UNCHANGED <<call, ret, readers, file, rx, nevents, tokvars, listvars, conn>>

NextEpoch ==
    \/ Accept
    \/ ModifyFile
    \/ OtherEvent
    \/ WatcherRecv
    \/ WatcherDebounce
    \/ WatcherDrain
    \/ WatcherLoad
    \/ EpochWatcherLock
    \/ EpochWatcherCancel
    \/ EpochWatcherReplace
    \/ EpochWatcherUnlock
    \/ WatcherSleep100
    \/ EpochWriteAcquire("write1")
    \/ EpochWriteAssign("assign1", "updated")
    \/ WatcherWrite1Queued
    \/ WatcherWrite1Timeout
    \/ WatcherSleep500
    \/ EpochWriteAcquire("write2")
    \/ EpochWriteAssign("assign2", "updated_second_attempt")
    \/ WatcherWrite2Queued
    \/ WatcherWrite2Timeout
    \/ \E h \in Conns : EpochTaskLock(h)
    \/ \E h \in Conns : EpochTaskClone(h)
    \/ \E h \in Conns : CheckCancelled(h)
    \/ \E h \in Conns : ParseRequest(h)
    \/ \E h \in Conns : ExtractTarget(h)
    \/ \E h \in Conns : ReadLock(h)
    \/ \E h \in Conns : Lookup(h)
    \/ \E h \in Conns : NotFoundWrite(h)
    \/ \E h \in Conns : Dispatch(h)
    \/ \E h \in Conns : ClientEof(h) \/ UpstreamEof(h)
    \/ \E h \in Conns : PumpDone(h)

SpecEpoch == InitEpoch /\ [][NextEpoch]_vars

\* the watcher is suspended: in select!, in a sleep, in the drain's read, or
\* waiting for the write lock
WatcherAwaits == wpc \in {"select", "debounce", "drain", "sleep100", "write1", "sleep500", "write2"}

\* the spawned task has left the block that clones the token and is in
\* handle_client
InHandleClient(c) == c.pc \notin {"spawned", "token_clone"}

\* C34: the watcher holds the epoch-token mutex at no suspension point and
\* neither does a listener-spawned task, and the watcher holds the write
\* guard only for the assignment that replaces the policy.
C34_NoLockAcrossAwait ==
    InEpoch =>
        /\ WatcherAwaits => px.mutex # HeldByWatcher /\ ~px.wguard
        /\ \A h \in Conns : InHandleClient(conn[h]) => px.mutex # HeldByTask(h)
        /\ px.wguard => wpc \in {"assign1", "assign2"}

\* the watcher is inside its critical section while a spawned task waits
\* for the mutex
C34_Witness ==
    /\ InEpoch /\ px.mutex = HeldByWatcher /\ wpc = "token_replace"
    /\ \E h \in Conns : conn[h].pc = "spawned"

\* C35: the installed token is not cancelled in any state a task can see
\* (whenever the watcher is outside its critical section); cancellation is
\* final and a cancelled token is never installed again; the cancel and the
\* replacement happen inside one critical section; no task obtains a token
\* that is already cancelled.
C35_InstalledTokenLive ==
    /\ [](InEpoch /\ px.mutex # HeldByWatcher => connections_token \notin cancelled)
    /\ [][/\ cancelled \subseteq cancelled'
          /\ connections_token' # connections_token =>
                /\ connections_token' \notin cancelled'
                /\ connections_token \in cancelled
                /\ px.mutex = HeldByWatcher /\ px'.mutex = HeldByWatcher
          /\ \A h \in Conns :
                conn'[h].token # conn[h].token => conn'[h].token \notin cancelled]_vars

\* a task has cloned the token installed by a reload that cancelled its
\* predecessor
C35_Witness ==
    /\ InEpoch /\ connections_token = 1 /\ cancelled = {0}
    /\ \E h \in Conns : conn[h].token = 1

-----------------------------------------------------------------------------
(* Connections that survive a reload *)

\* the last reload cycle has replaced the policy and the watcher is back in
\* its select!
ReloadCompleted == wpc = "select" /\ wlog \in {"updated", "updated_second_attempt"}

\* C36: after a completed successful reload every handler that holds the
\* installed token and has resolved a profile has resolved it against the
\* policy now in the cell.
C36_SurvivorsOnInstalledPolicy ==
    \A h \in Conns :
        (ReloadCompleted /\ conn[h].token = connections_token
            /\ Resolved(conn[h]) /\ conn[h].pc # "done")
            => ResolvedTo(conn[h]) = ProfileFor(config, conn[h].target_host)

-----------------------------------------------------------------------------
(* Readers and the waiting writer: two handlers and one reload *)

InitLease ==
    /\ call = NoCall
    /\ ret = NoRet
    /\ px = NoExchange
    /\ config = PolicyDirect
    /\ readers = {}
    /\ wwait = FALSE
    /\ file = PolicyDirect
    /\ rx = <<>>
    /\ wpc = "select"
    /\ new_config = None
    /\ wlog = "none"
    /\ connections_token = 0
    /\ cancelled = {}
    /\ shutdown_token = FALSE
    /\ lpc = "listening"
    /\ hist = <<PolicyDirect>>
    /\ nevents = 0
    /\ conn = [h \in 1..MaxTasks |->
                  [NewConn(IF h = 1 THEN ReqConnectAB ELSE ReqConnectC) EXCEPT !.acc_ver = 1]]

NextLease ==
    \/ ModifyFile
    \/ WatcherStep
    \/ \E h \in Conns : HandlerStep(h)
    \/ \E h \in Conns : ClientEof(h) \/ UpstreamEof(h)

SpecLease == InitLease /\ [][NextLease]_vars

\* the runtime keeps running a task while one can run: the watcher, whose
\* timeouts are steps of its own, or a handler
TaskStep == WatcherStep \/ \E h \in Conns : HandlerStep(h)

FairLeaseSpec == SpecLease /\ WF_vars(TaskStep)

\* C37: once it has cancelled the epoch the watcher obtains the write lease
\* or gives the cycle up and is back waiting for events, and a handler that
\* asks for the read lease obtains it, whatever the interleaving.
\* (there are finitely many events and every handler asks once, so "every
\* wait ends" is "from some point on nobody waits")
C37_LeaseNeverBlocks ==
    <>[](/\ wpc \notin {"sleep100", "write1", "sleep500", "write2"}
         /\ \A h \in Conns : conn[h].pc # "read_lock")

\* a handler asks for the read lease while the watcher's write is queued
\* behind the read guard of another handler
C37_Witness ==
    /\ wwait /\ wpc \in {"write1", "write2"}
    /\ \E h \in Conns : conn[h].pc = "read_lock" /\ readers = Conns \ {h}

-----------------------------------------------------------------------------
(* Modifications that arrive while a reload cycle is in progress *)

\* The channel has one slot (watcher.rs 18) and the notify thread posts with
\* blocking_send (watcher.rs 21): rx is the slot followed by the events the
\* notify thread still holds, in order.  The slot is full while rx has an
\* event.
SlotFull == rx # <<>>

\* the same with the callback posting by try_send: an event that finds the
\* slot full is dropped
ModifyAgainTrySend ==
    /\ nevents < MaxBurst
    /\ \E content \in FileContents : file' = content
    /\ rx' = IF SlotFull THEN rx ELSE Append(rx, "modify")
    /\ nevents' = nevents + 1
    /\ UNCHANGED <<harness, cellvars, wpc, new_config, wlog, tokvars, listvars, conn>>

\* the file is rewritten at any moment, also during a cycle
ModifyAgain ==
    /\ nevents < MaxBurst
    /\ \E content \in FileContents : file' = content
    /\ rx' = Append(rx, "modify")
    /\ nevents' = nevents + 1
    /\ UNCHANGED <<harness, cellvars, wpc, new_config, wlog, tokvars, listvars, conn>>

\* notify reports an event of another kind at any moment
OtherAgain ==
    /\ nevents < MaxBurst
    /\ rx' = Append(rx, "other")
    /\ nevents' = nevents + 1
    /\ UNCHANGED <<harness, cellvars, file, wpc, new_config, wlog, tokvars, listvars, conn>>

\* one handler that has parsed CONNECT c:80 and is about to ask for the read
\* guard; only its steps around the guard are followed
InitPending ==
    /\ call = NoCall
    /\ ret = NoRet
    /\ px = NoExchange
    /\ config = PolicyDirect
    /\ readers = {}
    /\ wwait = FALSE
    /\ file = PolicyDirect
    /\ rx = <<>>
    /\ wpc = "select"
    /\ new_config = None
    /\ wlog = "none"
    /\ connections_token = 0
    /\ cancelled = {}
    /\ shutdown_token = FALSE
    /\ lpc = "listening"
    /\ hist = <<PolicyDirect>>
    /\ nevents = 0
    /\ conn = <<[NewConn(ReqConnectC) EXCEPT !.pc = "read_lock", !.token = 0,
                                             !.request = parse_request(ReqConnectC).request,
                                             !.target_host = HostC, !.port = 80,
                                             !.acc_ver = 1]>>

NextPending ==
    \/ ModifyAgain
    \/ OtherAgain
    \/ WatcherStep
    \/ \E h \in Conns : ReadLock(h) \/ Lookup(h) \/ NotFoundWrite(h)

SpecPending == InitPending /\ [][NextPending]_vars

\* the watcher task is scheduled; the handler is not obliged to go on, so its
\* read guard may stay out for as long as it likes
FairPendingSpec == SpecPending /\ WF_vars(WatcherStep)

\* the last reload cycle gave the write lease up after both attempts
LeaseGivenUp == wlog = "write_timeout_second"

\* C38: when the file was last rewritten to a valid policy and the last cycle
\* obtained the write lease, the watcher ends up idle with every event
\* received and the cell holding the policy of the file's final content,
\* wherever in a cycle the modify events arrived.
C38_NoModificationLost ==
    <>[]((file # Malformed /\ ~LeaseGivenUp)
            => (wpc = "select" /\ rx = <<>> /\ config = file))

\* the file is rewritten while the cycle in progress, which parsed the earlier
\* content, waits for the write lease and the slot is taken by another event
C38_Witness ==
    /\ wpc \in {"write1", "write2"}
    /\ Len(rx) >= 2 /\ rx[Len(rx)] = "modify"
    /\ file # Malformed /\ new_config # file

-----------------------------------------------------------------------------
(* The Content-Length of an emitted request *)

\* the Content-Length header lines of the emitted head; header names are
\* case-insensitive on the wire, the client's is kept under its lowercased key
ContentLengthLines == Named("content-length") \cup Named("Content-Length")

\* the body bytes written behind the head
BodySent ==
    LET bodies == {i \in 1..Len(px.wire) : px.wire[i].t = "body"}
    IN  IF bodies = {} THEN 0 ELSE Len(px.wire[CHOOSE i \in bodies : TRUE].b)

\* C39: a request head emitted upstream, by forward_http_request or by the
\* direct arm, has at most one Content-Length header, and its value is the
\* number of body bytes sent behind the head.
C39_OneContentLength ==
    (px.proto \in {"forward", "direct"} /\ px.pc \in {"ready", "pump"}) =>
        /\ Cardinality(ContentLengthLines) <= 1
        /\ \A i \in ContentLengthLines : px.wire[i].b = ToDec(BodySent)

-----------------------------------------------------------------------------
(* The SOCKS5 request for a long target host *)

\* the largest value of the u8 that `request.target.len() as u8` yields
U8Max == 255

\* a host name one byte longer than a u8 can count; nothing between the
\* request line and forward_to_proxy bounds the length of the host
LongHost == [i \in 1..(U8Max + 1) |-> "a"]

InitLongHost ==
    /\ call = NoCall
    /\ ret = NoRet
    /\ px \in {SocksCall(t, p, m) : t \in {HostC, LongHost}, p \in SocksPorts, m \in SocksMethods}
    /\ SysIdle

SpecLongHost == InitLongHost /\ [][NextSocks]_vars

\* the request as the upstream reads it behind the greeting
RequestSent == SubSeq(px.wire, Len(SocksGreeting) + 1, Len(px.wire))

\* the whole request has been written
RequestWritten == px.proto = "socks5" /\ px.pc \in {"reply_head", "reply_addr", "ready", "pump"}

\* C40: the length byte of the request is the number of domain bytes written
\* behind it, and the two bytes the upstream takes for the port, right behind
\* the domain bytes that the length byte announces, are the port written.
C40_LengthByteCountsDomain ==
    RequestWritten =>
        LET len == RequestSent[5]
        IN  /\ len = Len(as_bytes(px.request.target))
            /\ SubSeq(RequestSent, 6 + len, 7 + len) = to_be_bytes(px.request.port)

=============================================================================
